---- MODULE Spec2Model ----
(***************************************************************************)
(* A model of the strands-samples scripts: agent-intro.py, agent-tools.py, *)
(* agent-graph.py, agent-graph-ui.py and web_ui.py.                        *)
(*                                                                         *)
(* Spec        one run of one script, statement by statement: prompt       *)
(*             loading, protocol (MCP) client sessions, agent              *)
(*             construction, graph building and the graph run.             *)
(* SpecEvents  the callbacks of one dashboard session: event_handler_func  *)
(*             of web_ui.py on every shape of payload.                     *)
(* SpecMarkdown  the clean-up pass of the two format_markdown_output       *)
(*             functions of agent-graph-ui.py on short texts.              *)
(* SpecExtract   _extract_final_result of web_ui.py on every shape of      *)
(*             graph result.                                               *)
(* SpecServerEnv the environment handed to the two protocol server         *)
(*             subprocesses, for every setting of os.environ.              *)
(* SpecDashboard one browser session of the dashboard of web_ui.py: the    *)
(*             reruns of main() that the user's actions cause.             *)
(***************************************************************************)
EXTENDS Integers, Sequences, FiniteSets, TLC

VARIABLES
    script,        \* which script is being run
    files,         \* the YAML files on disk: file name -> document
    env,           \* environment variables: name -> value ("" when unset)
    pc,            \* index of the next statement of the script
    status,        \* "running", "done" or "crashed"
    crash,         \* the statement and exception that ended a crashed run
    caught,        \* the exception an except clause is handling ("": none)
    sessions,      \* protocol client -> "closed" | "open"
    all_tools,     \* the tool list (module level, or self.all_tools / self.tools)
    config,        \* agent-tools.py: the loaded configuration record
    loaded,        \* value of the last load_system_prompt call
    agents,        \* agent name -> [built, system_prompt, tools]
    graph,         \* the built graph: nodes, edges, entry points
    run,           \* the graph run in progress: started, returned, active node
    printed,       \* what the script has printed, in order
    self_tools,    \* agent-graph-ui.py: the manager's self.tools
    mcp_tools_loaded, \* web_ui.py: self.mcp_tools_loaded
    user_input,    \* agent-graph-ui.py: the query read by the entry point
    response,      \* web_ui.py: what execute_query returned
    argv,          \* agent-graph-ui.py: sys.argv[1:]
    stdin,         \* agent-graph-ui.py: the line input() reads, or "EOF"
    event,         \* web_ui.py: the callback payload handled last
    handled,       \* the locals of event_handler_func at its end, or its exception
    agent_events,  \* web_ui.py: self.agent_events
    now,           \* the clock: the number of callbacks so far
    in_handler,    \* whether event_handler_func is at its end, not yet returned
    md_variant,    \* agent-graph-ui.py: which format_markdown_output is applied
    md_text,       \* its output string before the clean-up, as characters
    md_output,     \* the string it returns, as characters
    md_phase,      \* "input": not yet applied; "formatted": returned
    graph_result,  \* web_ui.py: the argument of _extract_final_result
    extracted,     \* what the call did: the value returned or the exception
    ex_phase,      \* "input": not yet called; "returned": the call is over
    environ,       \* os.environ: variable name -> its value, or Missing
    server_env,    \* client -> whether its server was started, and with which env
    session,       \* web_ui.py main: "new", "failed" or "ready" (manager built)
    chat_history,  \* st.session_state.chat_history: (query, response) pairs
    query_input,   \* the text of the query text area, as characters
    selected_example, \* the value of the example select box, as characters
    trigger        \* the widget whose use caused the latest run of main()

scriptVars == <<script, files, env, pc, status, crash, caught, sessions, all_tools,
                config, loaded, agents, graph, run, printed, self_tools,
                mcp_tools_loaded, user_input, response, argv, stdin>>

eventVars == <<event, handled, agent_events, now, in_handler>>

mdVars == <<md_variant, md_text, md_output, md_phase>>

exVars == <<graph_result, extracted, ex_phase>>

envVars == <<environ, server_env>>

uiVars == <<session, chat_history, query_input, selected_example, trigger>>

vars == <<scriptVars, eventVars, mdVars, exVars, envVars, uiVars>>

(***************************************************************************)
(* Python values.                                                          *)
(***************************************************************************)
None == "py:None"          \* Python's None, where a string is expected
Missing == "py:<no key>"   \* a key that a mapping does not hold

(***************************************************************************)
(* YAML documents. kind "absent": no such file (FileNotFoundError);        *)
(* "malformed": yaml.safe_load raises YAMLError; "null": an empty          *)
(* document, safe_load returns None; "scalar": a non-mapping value;        *)
(* "mapping": a mapping, with its system_prompt and agent_config entries.  *)
(***************************************************************************)
Doc(kind, prompt, meta) == [kind |-> kind, prompt |-> prompt, meta |-> meta]

AbsentDoc == Doc("absent", Missing, Missing)

FilePrompts == {Missing, None, "", "prompt from file"}
FileMetas == {Missing, "agent_config from file"}

Docs ==
    {Doc(k, Missing, Missing) : k \in {"absent", "malformed", "null", "scalar"}}
    \cup {Doc("mapping", p, m) : p \in FilePrompts, m \in FileMetas}

SYSTEM_PROMPT_YAML == "system_prompt.yaml"
KUBECTL_YAML == "kubectl_command_agent.yaml"
FileNames == {SYSTEM_PROMPT_YAML, KUBECTL_YAML}

(***************************************************************************)
(* Results of a call: a value, or an exception.                            *)
(***************************************************************************)
Return(v) == [exc |-> "", val |-> v]
Raise(e) == [exc |-> e, val |-> None]

\* config["system_prompt"] on the value yaml.safe_load returned
SubscriptSystemPrompt(doc) ==
    CASE doc.kind = "null" -> Raise("TypeError")
      [] doc.kind = "scalar" -> Raise("TypeError")
      [] doc.kind = "mapping" ->
            IF doc.prompt = Missing THEN Raise("KeyError") ELSE Return(doc.prompt)
      [] OTHER -> Raise("TypeError")

\* agent-graph.py and agent-graph-ui.py: load_system_prompt
load_system_prompt_graph(doc) ==
    IF doc.kind = "absent" THEN Return(None)
    ELSE IF doc.kind = "malformed" THEN Return(None)
    ELSE SubscriptSystemPrompt(doc)

WEB_DEFAULT_PROMPT == "You are a helpful AI assistant that can break down complex tasks and execute them using various tools."
WEB_KUBECTL_FALLBACK == "You are a Kubernetes command execution agent. Execute kubectl commands safely using the shell tool."
TOOLS_DEFAULT_PROMPT == "You are a helpful assistant."

\* web_ui.py: StrandsAgentManager.load_system_prompt
load_system_prompt_web(doc) ==
    IF doc.kind = "absent" THEN Return(WEB_DEFAULT_PROMPT)
    ELSE IF doc.kind = "malformed" THEN Return(WEB_DEFAULT_PROMPT)
    ELSE SubscriptSystemPrompt(doc)

\* agent-tools.py: load_system_prompt returns the whole configuration;
\* None is the document of kind "null"
load_system_prompt_tools(doc) ==
    IF doc.kind = "absent" THEN Doc("null", Missing, Missing)
    ELSE IF doc.kind = "malformed" THEN Doc("null", Missing, Missing)
    ELSE doc

\* Python truth value of a prompt string / of a configuration
Truthy(v) == v # None /\ v # ""
ConfigTruthy(cfg) == cfg.kind \in {"scalar", "mapping"}

DefaultConfig == Doc("mapping", TOOLS_DEFAULT_PROMPT, "default agent_config")

\* agent-tools.py: if not config: config = {...}
default_config(cfg) == IF ConfigTruthy(cfg) THEN cfg ELSE DefaultConfig

\* agent-tools.py: the keyword arguments of Agent(...), evaluated in order:
\* config["agent_config"]["name"], ["model"], config["system_prompt"], ...
agent_kwargs_tools(cfg) ==
    IF cfg.kind # "mapping" THEN Raise("TypeError")
    ELSE IF cfg.meta = Missing THEN Raise("KeyError")
    ELSE IF cfg.prompt = Missing THEN Raise("KeyError")
    ELSE Return(cfg.prompt)


(***************************************************************************)
(* Protocol clients and tools.                                             *)
(***************************************************************************)
AWS_DOCS == "mcp_client_aws_docs"
GITHUB == "mcp_client_github"
Clients == {AWS_DOCS, GITHUB}

\* what list_tools_sync returns for a client whose server answers
ClientTools(c) ==
    IF c = AWS_DOCS THEN <<"aws:read_documentation", "aws:search_documentation">>
    ELSE <<"github:search_repositories">>

Range(s) == {s[i] : i \in DOMAIN s}

DiscoveredTools == UNION {Range(ClientTools(c)) : c \in Clients}

BaseTools3 == <<"calculator", "current_time", "use_aws">>
BaseTools4 == <<"calculator", "current_time", "use_aws", "shell">>

AWS_ACCESS_KEY_ID == "AWS_ACCESS_KEY_ID"
GITHUB_PERSONAL_ACCESS_TOKEN == "GITHUB_PERSONAL_ACCESS_TOKEN"
EnvNames == {AWS_ACCESS_KEY_ID, GITHUB_PERSONAL_ACCESS_TOKEN}

(***************************************************************************)
(* The environment of the server subprocesses: the env argument of         *)
(* StdioServerParameters, the same in all five scripts.                    *)
(***************************************************************************)
AWS_SECRET_ACCESS_KEY == "AWS_SECRET_ACCESS_KEY"
AWS_DEFAULT_REGION == "AWS_DEFAULT_REGION"
ServerEnvNames ==
    {AWS_ACCESS_KEY_ID, AWS_SECRET_ACCESS_KEY, AWS_DEFAULT_REGION,
     GITHUB_PERSONAL_ACCESS_TOKEN}

\* a variable is unset (Missing), set to the empty string, or set
EnvValues == {Missing, "", "value from the environment"}

US_EAST_1 == "us-east-1"

\* os.getenv(name, default), with None for the default
getenv_no_default(e, name, default) == IF e[name] = Missing THEN None ELSE e[name]

\* os.getenv(name, default)
getenv(e, name, default) == IF e[name] = Missing THEN default ELSE e[name]

\* env={...} of each client's StdioServerParameters; Missing: not handed on
stdio_server_env(c, e) ==
    IF c = AWS_DOCS
    THEN [n \in ServerEnvNames |->
            CASE n = AWS_ACCESS_KEY_ID -> getenv(e, AWS_ACCESS_KEY_ID, "")
              [] n = AWS_SECRET_ACCESS_KEY -> getenv(e, AWS_SECRET_ACCESS_KEY, "")
              [] n = AWS_DEFAULT_REGION -> getenv(e, AWS_DEFAULT_REGION, US_EAST_1)
              [] OTHER -> Missing]
    ELSE [n \in ServerEnvNames |->
            IF n = GITHUB_PERSONAL_ACCESS_TOKEN
            THEN getenv(e, GITHUB_PERSONAL_ACCESS_TOKEN, "")
            ELSE Missing]

NotStarted == [started |-> FALSE, env |-> [n \in ServerEnvNames |-> Missing]]

ServerEnvIdle ==
    /\ environ = [n \in ServerEnvNames |-> Missing]
    /\ server_env = [c \in Clients |-> NotStarted]

(***************************************************************************)
(* Statements. A script is a sequence of statements; nx is the statement   *)
(* that follows on normal completion (0: the next one), h the statement of *)
(* the except clause that catches an exception raised here (0: none, the   *)
(* exception ends the script).                                             *)
(***************************************************************************)
Stmt == [op |-> "", c |-> "", f |-> "", ld |-> "", a |-> "", src |-> "",
         tl |-> "", tv |-> "", ap |-> FALSE, ev |-> {}, g |-> "", q |-> "",
         msg |-> "", flag |-> FALSE, nx |-> 0, h |-> 0]

InitTools(tv, base) == [Stmt EXCEPT !.op = "init_tools", !.tv = tv, !.tl = base]
Enter(c, h) == [Stmt EXCEPT !.op = "enter", !.c = c, !.h = h]
ListTools(c, tv, ap, h) ==
    [Stmt EXCEPT !.op = "list_tools", !.c = c, !.tv = tv, !.ap = ap, !.h = h]
CallTool(c, h) == [Stmt EXCEPT !.op = "call_tool", !.c = c, !.h = h]
Exit(c, nx) == [Stmt EXCEPT !.op = "exit", !.c = c, !.nx = nx]
PrintMsg(msg, nx) == [Stmt EXCEPT !.op = "print", !.msg = msg, !.nx = nx]
LoadPrompt(f, ld) == [Stmt EXCEPT !.op = "load_prompt", !.f = f, !.ld = ld]
DefaultCfg == [Stmt EXCEPT !.op = "default_config"]
Construct(a, src, tl) ==
    [Stmt EXCEPT !.op = "construct", !.a = a, !.src = src, !.tl = tl]
BuildGraph(g) == [Stmt EXCEPT !.op = "build_graph", !.g = g]
RunGraph(q, h) == [Stmt EXCEPT !.op = "run_graph", !.q = q, !.h = h]
RunAgent(a) == [Stmt EXCEPT !.op = "run_agent", !.a = a]
IfEnv(ev, to, h) == [Stmt EXCEPT !.op = "if_env", !.ev = ev, !.nx = to, !.h = h]
SetLoaded(flag, msg, nx) ==
    [Stmt EXCEPT !.op = "set_loaded", !.flag = flag, !.msg = msg, !.nx = nx]

\* the same call made before the block is entered
ProbeBlock_call_outside(c) == <<CallTool(c, 0), Enter(c, 0), Exit(c, 0)>>

\* with c: <call_tool_sync>, no try around it
ProbeBlock(c) == <<Enter(c, 0), CallTool(c, 0), Exit(c, 0)>>

\* with c: tools = c.list_tools_sync(); for tool in tools: all_tools.append(tool)
ListBlock(c) == <<Enter(c, 0), ListTools(c, "all_tools", TRUE, 0), Exit(c, 0)>>

OkMsg(c) == IF c = AWS_DOCS THEN "AWS MCP tools loaded successfully"
            ELSE "GitHub MCP tools loaded successfully"
WarnMsg(c) == IF c = AWS_DOCS THEN "AWS MCP tools failed to load"
              ELSE "GitHub MCP tools failed to load"
TotalMsg == "Total tools loaded"

\* print(f"Total tools loaded: {len(<tv>)}")
PrintTotal(tv) == [PrintMsg(TotalMsg, 0) EXCEPT !.tv = tv]

\* agent-graph-ui.py module level, first statement at index b:
\* try: with c: list, append; print ok   except Exception: print warning
TryListBlock(b, c) ==
    << Enter(c, b + 4),
       ListTools(c, "all_tools", TRUE, b + 4),
       Exit(c, 0),
       PrintMsg(OkMsg(c), b + 5),
       PrintMsg(WarnMsg(c), 0) >>

\* agent-graph-ui.py _load_tools, first statement at index b:
\* try: with c: tools = list; print ok    except Exception: print warning
\* (the listed tools are not appended)
TryLoadBlock(b, c) ==
    << Enter(c, b + 4),
       ListTools(c, "self_tools", FALSE, b + 4),
       PrintMsg(OkMsg(c), 0),
       Exit(c, b + 5),
       PrintMsg(WarnMsg(c), 0) >>

(***************************************************************************)
(* The scripts.                                                            *)
(***************************************************************************)
AGENT_INTRO == "agent-intro.py"
AGENT_TOOLS == "agent-tools.py"
AGENT_GRAPH == "agent-graph.py"
AGENT_GRAPH_UI == "agent-graph-ui.py"
WEB_UI == "web_ui.py"
Scripts == {AGENT_INTRO, AGENT_TOOLS, AGENT_GRAPH, AGENT_GRAPH_UI, WEB_UI}

\* agent-intro.py with the agent called after the with block is left
agent_intro_run_after_exit ==
    <<InitTools("all_tools", "base3")>>
    \o ListBlock(AWS_DOCS)
    \o ListBlock(GITHUB)
    \o ProbeBlock(GITHUB)
    \o << Enter(AWS_DOCS, 0), Enter(GITHUB, 0),
          Construct("IntroAgent", "unset", "all_tools"),
          Exit(GITHUB, 0), Exit(AWS_DOCS, 0),
          RunAgent("IntroAgent") >>

agent_intro ==
    <<InitTools("all_tools", "base3")>>
    \o ListBlock(AWS_DOCS)
    \o ListBlock(GITHUB)
    \o ProbeBlock(GITHUB)
    \o << Enter(AWS_DOCS, 0), Enter(GITHUB, 0),
          Construct("IntroAgent", "unset", "all_tools"),
          RunAgent("IntroAgent"),
          Exit(GITHUB, 0), Exit(AWS_DOCS, 0) >>

agent_tools ==
    << LoadPrompt(SYSTEM_PROMPT_YAML, "tools"), DefaultCfg,
       InitTools("all_tools", "base3") >>
    \o ProbeBlock(GITHUB)
    \o << Enter(AWS_DOCS, 0), Enter(GITHUB, 0),
          Construct("agent", "config", "all_tools"),
          RunAgent("agent"),
          PrintMsg("RESULT", 0),
          Exit(GITHUB, 0), Exit(AWS_DOCS, 0) >>

\* the four module-level agents of agent-graph.py and agent-graph-ui.py
ModuleAgents(ld, src) ==
    << Construct("task_decomposer", "literal", "none"),
       LoadPrompt(KUBECTL_YAML, ld),
       Construct("kubectl_command_agent", src, "shell"),
       Construct("task_executor", "literal", "all_tools"),
       Construct("result_aggregator", "literal", "none") >>

FIXED_QUERY == "find any issues with EKS cluster sliverblaze"

agent_graph ==
    ProbeBlock(GITHUB)
    \o <<InitTools("all_tools", "base4")>>
    \o ListBlock(AWS_DOCS)
    \o ListBlock(GITHUB)
    \o ModuleAgents("graph", "loaded")
    \o << BuildGraph("module"),
          PrintMsg("Starting multi-agent task execution workflow", 0),
          RunGraph("fixed", 0) >>

agent_graph_ui ==
    <<InitTools("all_tools", "base4")>>
    \o TryListBlock(2, AWS_DOCS)
    \o TryListBlock(7, GITHUB)
    \o <<PrintTotal("all_tools")>>
    \o ModuleAgents("graph", "loaded")
    \o << BuildGraph("module"), RunGraph("fixed", 0) >>
    \* if __name__ == "__main__":
    \o << [Stmt EXCEPT !.op = "read_input"],
          InitTools("self_tools", "base4") >>
    \o TryLoadBlock(22, AWS_DOCS)
    \o TryLoadBlock(27, GITHUB)
    \o << PrintTotal("self_tools"),
          LoadPrompt(SYSTEM_PROMPT_YAML, "graph"),
          Construct("execute_task.task_decomposer", "loaded", "self_tools"),
          LoadPrompt(KUBECTL_YAML, "graph"),
          Construct("execute_task.executor", "loaded", "self_tools"),
          Construct("execute_task.result_aggregator", "literal", "self_tools"),
          BuildGraph("execute_task"),
          RunGraph("user_input", 0),
          [Stmt EXCEPT !.op = "format_print"] >>

web_ui ==
    << InitTools("all_tools", "base4"),
       SetLoaded(FALSE, "", 0),
       IfEnv({AWS_ACCESS_KEY_ID, GITHUB_PERSONAL_ACCESS_TOKEN}, 14, 0),
       IfEnv({AWS_ACCESS_KEY_ID}, 8, 13),
       Enter(AWS_DOCS, 13), ListTools(AWS_DOCS, "all_tools", TRUE, 13),
       Exit(AWS_DOCS, 0),
       IfEnv({GITHUB_PERSONAL_ACCESS_TOKEN}, 12, 13),
       Enter(GITHUB, 13), ListTools(GITHUB, "all_tools", TRUE, 13),
       Exit(GITHUB, 0),
       SetLoaded(TRUE, "MCP tools loaded successfully", 14),
       SetLoaded(FALSE, "Could not load MCP tools", 0) >>
    \o ModuleAgents("web", "loaded_or_fallback")
    \o << BuildGraph("module"),
          RunGraph("query", 22),
          [Stmt EXCEPT !.op = "return_result", !.nx = 23],
          [Stmt EXCEPT !.op = "return_error"] >>

Program(s) ==
    CASE s = AGENT_INTRO -> agent_intro
      [] s = AGENT_TOOLS -> agent_tools
      [] s = AGENT_GRAPH -> agent_graph
      [] s = AGENT_GRAPH_UI -> agent_graph_ui
      [] s = WEB_UI -> web_ui


(***************************************************************************)
(* Agents and graphs.                                                      *)
(***************************************************************************)
AgentNames == {"IntroAgent", "agent", "task_decomposer", "kubectl_command_agent",
               "task_executor", "result_aggregator",
               "execute_task.task_decomposer", "execute_task.executor",
               "execute_task.result_aggregator"}

NoAgent == [built |-> FALSE, system_prompt |-> None, tools |-> <<>>]

INLINE_PROMPT == "prompt written in the script"

Node(id, agent) == [id |-> id, agent |-> agent]

\* the builder without its set_entry_point("task_decomposer") call
builder_module_no_entry_point ==
    [nodes |-> << Node("task_decomposer", "task_decomposer"),
                  Node("task_executor", "task_executor"),
                  Node("kubectl_command_agent", "kubectl_command_agent"),
                  Node("result_aggregator", "result_aggregator") >>,
     edges |-> { <<"task_decomposer", "kubectl_command_agent">>,
                 <<"kubectl_command_agent", "result_aggregator">> },
     entry_points |-> {}]

\* builder of agent-graph.py, agent-graph-ui.py (module level) and web_ui.py
builder_module ==
    [nodes |-> << Node("task_decomposer", "task_decomposer"),
                  Node("task_executor", "task_executor"),
                  Node("kubectl_command_agent", "kubectl_command_agent"),
                  Node("result_aggregator", "result_aggregator") >>,
     edges |-> { <<"task_decomposer", "kubectl_command_agent">>,
                 <<"kubectl_command_agent", "result_aggregator">> },
     entry_points |-> {"task_decomposer"}]

\* graph_builder of StrandsAgentManager.execute_task in agent-graph-ui.py
builder_execute_task ==
    [nodes |-> << Node("task_decomposer", "execute_task.task_decomposer"),
                  Node("executor", "execute_task.executor"),
                  Node("result_aggregator", "execute_task.result_aggregator") >>,
     edges |-> { <<"task_decomposer", "executor">>,
                 <<"executor", "result_aggregator">> },
     entry_points |-> {}]

Builder(g) == IF g = "module" THEN builder_module ELSE builder_execute_task

NodeIds(b) == {b.nodes[i].id : i \in DOMAIN b.nodes}
Dependencies(g, n) == {e[1] : e \in {d \in g.edges : d[2] = n}}

\* builder.build(): the entry points are those set, or else the nodes
\* without an incoming edge
build(b) ==
    [nodes |-> b.nodes, edges |-> b.edges,
     entry_points |-> IF b.entry_points # {} THEN b.entry_points
                      ELSE {n \in NodeIds(b) : Dependencies(b, n) = {}}]

NoGraph == [nodes |-> <<>>, edges |-> {}, entry_points |-> {}]

NoRun == [active |-> FALSE, running |-> {}, started |-> <<>>,
          returned |-> <<>>, query |-> "", count |-> 0, nodes |-> {}]

\* the nodes the graph may start now: an entry point, or a node all of
\* whose dependencies have returned; never a node that was started before
Ready(g, r) ==
    {n \in NodeIds(g) :
        /\ n \notin Range(r.started)
        /\ \/ n \in g.entry_points
           \/ /\ Dependencies(g, n) # {}
              /\ Dependencies(g, n) \subseteq Range(r.returned)}


(***************************************************************************)
(* web_ui.py: the callback payloads and event_handler_func.                *)
(*                                                                         *)
(* A payload is the dictionary of keyword arguments of a callback. Each    *)
(* key is present or not; a nested key that is not there is Missing. The   *)
(* "event" dictionary holds messageStart or not, and at most one of the    *)
(* keys of the elif chain (key: "" when none).                             *)
(***************************************************************************)
CTU_NAME == "calculator"          \* name in current_tool_use
CTU_INPUT == "expression: 2+2"    \* input in current_tool_use
STREAM_TOOL == "shell"            \* name in contentBlockStart.start.toolUse
STREAM_INPUT == "{\"command\": "  \* input in contentBlockDelta.delta.toolUse
STREAM_TEXT == "text of a content block delta"
DELTA_TOOL == "use_aws"           \* name in delta.current_tool_use
DELTA_INPUT == "{\"service\": "   \* input in delta.current_tool_use
DATA_TEXT == "text chunk"

ToolUses == { [present |-> FALSE, name |-> Missing, input |-> Missing],
              [present |-> TRUE, name |-> Missing, input |-> Missing],
              [present |-> TRUE, name |-> "", input |-> Missing],
              [present |-> TRUE, name |-> CTU_NAME, input |-> Missing],
              [present |-> TRUE, name |-> CTU_NAME, input |-> CTU_INPUT] }

ChainKeys == {"messageStop", "contentBlockStart", "contentBlockStop",
              "contentBlockDelta", "metadata"}

\* contentBlockStart: no "start"; "start" without "toolUse"; toolUse
\* without "name"; toolUse with a name
StartShapes == {"no start", "no toolUse", "toolUse without name", "toolUse"}
\* contentBlockDelta: no "delta"; an empty delta; delta.text; delta.toolUse
\* with and without "input"
BlockDeltaShapes == {"no delta", "empty delta", "text", "toolUse",
                     "toolUse without input"}

NoStreamEvent == [present |-> FALSE, messageStart |-> FALSE, key |-> "",
                  start |-> "no start", delta |-> "no delta"]

StreamEvents ==
    {NoStreamEvent}
    \cup {[present |-> TRUE, messageStart |-> ms, key |-> k,
           start |-> "no start", delta |-> "no delta"] :
             ms \in BOOLEAN,
             k \in {"", "messageStop", "contentBlockStop", "metadata"}}
    \cup {[present |-> TRUE, messageStart |-> ms, key |-> "contentBlockStart",
           start |-> st, delta |-> "no delta"] :
             ms \in BOOLEAN, st \in StartShapes}
    \cup {[present |-> TRUE, messageStart |-> ms, key |-> "contentBlockDelta",
           start |-> "no start", delta |-> d] :
             ms \in BOOLEAN, d \in BlockDeltaShapes}

\* the "delta" key: absent; without current_tool_use; current_tool_use
\* without name, without input, complete
Deltas == { [present |-> FALSE, ctu |-> FALSE, name |-> Missing, input |-> Missing],
            [present |-> TRUE, ctu |-> FALSE, name |-> Missing, input |-> Missing],
            [present |-> TRUE, ctu |-> TRUE, name |-> Missing, input |-> DELTA_INPUT],
            [present |-> TRUE, ctu |-> TRUE, name |-> DELTA_TOOL, input |-> Missing],
            [present |-> TRUE, ctu |-> TRUE, name |-> DELTA_TOOL, input |-> DELTA_INPUT] }

\* the "message" key: absent; without "role"; with a role
Messages == {"absent", "without role", "with role"}

Payloads ==
    [current_tool_use : ToolUses, data : {Missing, DATA_TEXT},
     event : StreamEvents, delta : Deltas, message : Messages]

NoPayload ==
    [current_tool_use |-> [present |-> FALSE, name |-> Missing, input |-> Missing],
     data |-> Missing, event |-> NoStreamEvent,
     delta |-> [present |-> FALSE, ctu |-> FALSE, name |-> Missing, input |-> Missing],
     message |-> "absent"]

\* json.dumps on the values the payloads hold
JsonDumps(v) ==
    CASE v = Missing -> "{}"        \* .get('input', {}) of a missing input
      [] v = CTU_INPUT -> "{\"expression\": \"2+2\"}"
      [] v = "with role" -> "{\"role\": \"assistant\", \"content\": []}"
      [] v = "metadata" -> "{\"usage\": {}}"
      [] OTHER -> v

\* the locals of event_handler_func; exc is the exception that ended it
Locals0 == [exc |-> "", event_type |-> "n/a", tool_name |-> "",
            tool_input |-> "", message |-> ""]

\* the first block without its event_type = "tool_use"
OnCurrentToolUse_no_label(l, e) ==
    IF e.current_tool_use.present /\ Truthy(e.current_tool_use.name)
                                  /\ e.current_tool_use.name # Missing
    THEN [l EXCEPT !.tool_name = e.current_tool_use.name,
                   !.tool_input = JsonDumps(e.current_tool_use.input)]
    ELSE l

\* if "current_tool_use" in event and event["current_tool_use"].get("name")
OnCurrentToolUse(l, e) ==
    IF e.current_tool_use.present /\ Truthy(e.current_tool_use.name)
                                  /\ e.current_tool_use.name # Missing
    THEN [l EXCEPT !.tool_name = e.current_tool_use.name,
                   !.tool_input = JsonDumps(e.current_tool_use.input),
                   !.event_type = "tool_use"]
    ELSE l

\* if "data" in event
OnData(l, e) ==
    IF e.data # Missing
    THEN [l EXCEPT !.event_type = "text", !.message = e.data]
    ELSE l

\* elif "contentBlockStart" in event["event"]
OnContentBlockStart(l, ev) ==
    IF ev.start = "toolUse without name" THEN [l EXCEPT !.exc = "KeyError"]
    ELSE LET l1 == IF ev.start = "toolUse"
                   THEN [l EXCEPT !.event_type = "tool_use",
                                  !.tool_name = STREAM_TOOL]
                   ELSE l
         IN  [l1 EXCEPT !.message = "Content block generation started",
                        !.event_type = "control"]

\* elif "contentBlockDelta" in event["event"]
OnContentBlockDelta(l, ev) ==
    CASE ev.delta = "text" ->
            [l EXCEPT !.event_type = "text", !.message = STREAM_TEXT]
      [] ev.delta = "toolUse" ->
            [l EXCEPT !.event_type = "tool_use", !.tool_input = STREAM_INPUT]
      [] ev.delta = "toolUse without input" -> [l EXCEPT !.exc = "KeyError"]
      [] OTHER -> l

\* if "event" in event
OnEvent(l, e) ==
    IF ~e.event.present THEN l
    ELSE LET ev == e.event
             l1 == IF ev.messageStart
                   THEN [l EXCEPT !.message = "Message generation started",
                                  !.event_type = "control"]
                   ELSE l
         IN  CASE ev.key = "messageStop" ->
                    [l1 EXCEPT !.message = "Message generation ended",
                               !.event_type = "control"]
               [] ev.key = "contentBlockStart" -> OnContentBlockStart(l1, ev)
               [] ev.key = "contentBlockStop" ->
                    [l1 EXCEPT !.message = "Content block generation ended",
                               !.event_type = "control"]
               [] ev.key = "contentBlockDelta" -> OnContentBlockDelta(l1, ev)
               [] ev.key = "metadata" ->
                    [l1 EXCEPT !.message = "Metadata: " \o JsonDumps("metadata"),
                               !.event_type = "metadata"]
               [] OTHER -> l1

\* if "delta" in event: if "current_tool_use" in event["delta"]
OnDelta(l, e) ==
    IF ~(e.delta.present /\ e.delta.ctu) THEN l
    ELSE IF e.delta.name = Missing \/ e.delta.input = Missing
    THEN [l EXCEPT !.exc = "KeyError"]
    ELSE [l EXCEPT !.tool_name = e.delta.name, !.tool_input = e.delta.input,
                   !.event_type = "tool_use"]

\* if "message" in event and "role" in event["message"]
OnMessage(l, e) ==
    IF e.message = "with role"
    THEN [l EXCEPT !.message = JsonDumps(e.message), !.event_type = "message"]
    ELSE l

\* event_handler_func up to its last if: the locals at its end (an
\* exception ends the function where it is raised)
event_handler_func(e) ==
    LET l3 == OnEvent(OnData(OnCurrentToolUse(Locals0, e), e), e)
    IN  IF l3.exc # "" THEN l3
        ELSE LET l4 == OnDelta(l3, e)
             IN  IF l4.exc # "" THEN l4 ELSE OnMessage(l4, e)

AgentEvent(t, l) ==
    [timestamp |-> t, event_type |-> l.event_type, tool_name |-> l.tool_name,
     tool_input |-> l.tool_input, message |-> l.message]

\* if event_type in ["message"]: self.agent_events.append(AgentEvent(...))
Recorded(l) == l.exc = "" /\ l.event_type \in {"message"}

EventsIdle ==
    /\ event = NoPayload
    /\ handled = Locals0
    /\ agent_events = <<>>
    /\ now = 0
    /\ in_handler = FALSE

(***************************************************************************)
(* agent-graph-ui.py: the clean-up pass of format_markdown_output. A       *)
(* string is the sequence of its characters.                               *)
(***************************************************************************)
NL == "\n"
\* the one character U+2022, the bullet
BULLET == "U+2022"
Whitespace == {" ", "\t", "\r", NL}

RECURSIVE LStrip(_)
LStrip(s) == IF s # <<>> /\ Head(s) \in Whitespace THEN LStrip(Tail(s)) ELSE s

RECURSIVE RStrip(_)
RStrip(s) ==
    IF s # <<>> /\ s[Len(s)] \in Whitespace THEN RStrip(SubSeq(s, 1, Len(s) - 1))
    ELSE s

\* str.strip()
Strip(s) == LStrip(RStrip(s))

\* str.lower(), on the letters the texts hold
LowerChar(c) ==
    CASE c = "A" -> "a" [] c = "F" -> "f" [] c = "I" -> "i" [] c = "K" -> "k"
      [] c = "L" -> "l" [] c = "N" -> "n" [] c = "S" -> "s" [] c = "Y" -> "y"
      [] OTHER -> c
Lower(s) == [i \in DOMAIN s |-> LowerChar(s[i])]

\* str.startswith(p)
StartsWith(s, p) == Len(s) >= Len(p) /\ SubSeq(s, 1, Len(p)) = p

\* sub in s
Contains(s, sub) ==
    \E i \in 0..(Len(s) - Len(sub)) : SubSeq(s, i + 1, i + Len(sub)) = sub

\* str.split('\n')
RECURSIVE SplitLines(_)
SplitLines(s) ==
    IF \A i \in DOMAIN s : s[i] # NL THEN <<s>>
    ELSE LET k == CHOOSE i \in DOMAIN s :
                     s[i] = NL /\ \A j \in 1..(i - 1) : s[j] # NL
         IN  <<SubSeq(s, 1, k - 1)>> \o SplitLines(SubSeq(s, k + 1, Len(s)))

\* '\n'.join(lines)
RECURSIVE JoinLines(_)
JoinLines(lines) ==
    IF lines = <<>> THEN <<>>
    ELSE IF Len(lines) = 1 THEN lines[1]
    ELSE lines[1] \o <<NL>> \o JoinLines(Tail(lines))

Headers == { <<"e", "x", "e", "c", "u", "t", "i", "v", "e", " ", "s", "u", "m", "m", "a", "r", "y">>,
            <<"k", "e", "y", " ", "f", "i", "n", "d", "i", "n", "g", "s">>,
            <<"i", "s", "s", "u", "e", "s", "/", "e", "r", "r", "o", "r", "s">>,
            <<"r", "e", "c", "o", "m", "m", "e", "n", "d", "a", "t", "i", "o", "n", "s">>,
            <<"a", "n", "a", "l", "y", "s", "i", "s">> }

Digits == {"0", "1", "2", "3", "4", "5", "6", "7", "8", "9"}

IsHeader(line) == \E h \in Headers : Contains(Lower(line), h)
IsNumbered(line) == Len(line) > 2 /\ line[1] \in Digits /\ line[2] \in {".", ")"}

\* the same loop body with the bullet test made before the header test
format_line_module_bullets_first(raw) ==
    LET line == Strip(raw)
    IN  IF line = <<>> THEN <<>>
        ELSE IF StartsWith(line, <<"-">>) \/ StartsWith(line, <<BULLET>>)
        THEN IF ~StartsWith(line, <<"-", " ">>)
             THEN <<"-", " ">> \o Strip(Tail(line))
             ELSE line
        ELSE IF IsHeader(line)
        THEN IF ~StartsWith(line, <<"#">>) THEN <<"#", "#", " ">> \o line ELSE line
        ELSE line

\* the body of the for loop of the module-level format_markdown_output:
\* what one line appends to formatted_lines
format_line_module(raw) ==
    LET line == Strip(raw)
    IN  IF line = <<>> THEN <<>>
        ELSE IF IsHeader(line)
        THEN IF ~StartsWith(line, <<"#">>) THEN <<"#", "#", " ">> \o line ELSE line
        ELSE IF StartsWith(line, <<"-">>) \/ StartsWith(line, <<BULLET>>)
        THEN IF ~StartsWith(line, <<"-", " ">>)
             THEN <<"-", " ">> \o Strip(Tail(line))
             ELSE line
        ELSE IF IsNumbered(line) THEN line
        ELSE line

\* the same loop body without its test for a leading '#'
format_line_method_no_hash_test(raw) ==
    LET line == Strip(raw)
    IN  IF line = <<>> THEN <<>>
        ELSE IF IsHeader(line) THEN <<"#", "#", " ">> \o line
        ELSE line

\* the body of the for loop of StrandsAgentManager.format_markdown_output
format_line_method(raw) ==
    LET line == Strip(raw)
    IN  IF line = <<>> THEN <<>>
        ELSE IF IsHeader(line)
        THEN IF ~StartsWith(line, <<"#">>) THEN <<"#", "#", " ">> \o line ELSE line
        ELSE IF IsNumbered(line) THEN line
        ELSE line

FormatLine(variant, raw) ==
    IF variant = "module" THEN format_line_module(raw) ELSE format_line_method(raw)

\* the same pass leaving out the lines that are empty once stripped
clean_up_skip_blank(variant, output) ==
    LET lines == SplitLines(output)
        kept == SelectSeq(lines, LAMBDA l : Strip(l) # <<>>)
    IN  JoinLines([i \in DOMAIN kept |-> FormatLine(variant, kept[i])])

\* lines = output.split('\n'); ...; return '\n'.join(formatted_lines)
clean_up(variant, output) ==
    LET lines == SplitLines(output)
    IN  JoinLines([i \in DOMAIN lines |-> FormatLine(variant, lines[i])])

\* the pieces the texts are made of
Fragments == { <<NL>>,
               <<" ">>,
               <<"#">>,
               <<"#", "#", " ">>,
               <<"-", " ">>,
               <<"-">>,
               <<BULLET>>,
               <<"K", "e", "y", " ", "F", "i", "n", "d", "i", "n", "g", "s">>,
               <<"A", "N", "A", "L", "Y", "S", "I", "S">>,
               <<"#", " ", "A", "n", "a", "l", "y", "s", "i", "s", " ">>,
               <<"t", "e", "x", "t">>,
               <<"1", ".">> }

MaxFragments == 3

RECURSIVE TextsOf(_)
TextsOf(n) ==
    IF n = 0 THEN {<<>>}
    ELSE LET shorter == TextsOf(n - 1)
         IN  shorter \cup {t \o f : t \in shorter, f \in Fragments}

Texts == TextsOf(MaxFragments)

MarkdownIdle ==
    /\ md_variant = "module"
    /\ md_text = <<>>
    /\ md_output = <<>>
    /\ md_phase = "idle"

(***************************************************************************)
(* web_ui.py: _extract_final_result. A Python value is a record of its     *)
(* type and what str() gives for it.                                       *)
(***************************************************************************)
PyStr(t) == [type |-> "str", text |-> t]
PyNone == [type |-> "NoneType", text |-> "None"]

\* an attribute of an object: not there, None, or set to a list or dict
NoAttr == [state |-> "missing", items |-> <<>>]
NoneAttr == [state |-> "None", items |-> <<>>]
Attr(items) == [state |-> "set", items |-> items]

\* what message['content'][-1]['text'] of a node holds
FINAL_TEXT == "final answer"
NodeText(shape) ==
    IF shape = "text" THEN PyStr(FINAL_TEXT) ELSE PyNone

\* x itself as a value
Value(x) == [type |-> x.type, text |-> x.text]

\* str(x)
Str(x) == PyStr(x.text)

\* The shapes of a node's result, from the outside in: no .result
\* attribute; a result without .message; message None; a message without
\* 'content'; content []; a last content block without 'text'; a last block
\* whose text is None; a last block with text
Shapes == {"no result", "no message", "message None", "no content",
           "empty content", "no text", "text None", "text"}

Skip == [kind |-> "skip", exc |-> "", value |-> PyNone]
Raised(exc) == [kind |-> "raise", exc |-> exc, value |-> PyNone]
Returned(v) == [kind |-> "return", exc |-> "", value |-> v]

\* message['content'][-1]['text'] once message is known to be there
SubscriptText(shape) ==
    CASE shape = "message None" -> Raised("TypeError")
      [] shape = "no content" -> Raised("KeyError")
      [] shape = "empty content" -> Raised("IndexError")
      [] shape = "no text" -> Raised("KeyError")
      [] OTHER -> Returned(Str(NodeText(shape)))

\* hasattr(.., 'result') and hasattr(.., 'message') and 'content' in message,
\* then the subscripts: the last entry of execution_order and the fallback
\* loop
lookup_guarded(shape) ==
    CASE shape \in {"no result", "no message", "no content"} -> Skip
      [] shape = "message None" -> Raised("TypeError")
      [] OTHER -> SubscriptText(shape)

\* the same without the test for 'content': results['result_aggregator']
lookup_aggregator(shape) ==
    IF shape \in {"no result", "no message"} THEN Skip ELSE SubscriptText(shape)

RESULT_AGGREGATOR == "result_aggregator"
NodeNames == {"task_decomposer", "kubectl_command_agent", RESULT_AGGREGATOR}

MaxResults == 2

\* graph_result.results as a dict: node names in insertion order, each once
ResultDicts ==
    {d \in UNION {[1..n -> [name : NodeNames, shape : Shapes]] : n \in 0..MaxResults} :
        \A i, j \in DOMAIN d : i # j => d[i].name # d[j].name}

\* a plain string, or an object whose execution_order and results are
\* missing, None or filled
PLAIN_RESULT == "plain result"
GRAPH_RESULT_REPR == "GraphResult(...)"
GraphResults ==
    {[type |-> "str", text |-> PLAIN_RESULT, execution_order |-> NoAttr,
      results |-> NoAttr]}
    \cup [type : {"GraphResult"}, text : {GRAPH_RESULT_REPR},
          execution_order : {NoAttr, NoneAttr, Attr(<<>>)}
                                \cup {Attr(<<sh>>) : sh \in Shapes},
          results : {NoAttr, NoneAttr} \cup {Attr(d) : d \in ResultDicts}]

NoGraphResult == [type |-> "NoneType", text |-> "None",
                  execution_order |-> NoAttr, results |-> NoAttr]

HasKey(d, k) == \E i \in DOMAIN d : d[i].name = k
Get(d, k) == d[CHOOSE i \in DOMAIN d : d[i].name = k]

\* lines 325-332
last_execution(gr) ==
    LET order == gr.execution_order.items
    IN  IF order = <<>> THEN Skip ELSE lookup_guarded(order[Len(order)])

\* lines 335-338
aggregator_result(gr) ==
    IF gr.results = NoAttr THEN Skip
    ELSE IF gr.results = NoneAttr THEN Raised("TypeError")
    ELSE IF ~HasKey(gr.results.items, RESULT_AGGREGATOR) THEN Skip
    ELSE lookup_aggregator(Get(gr.results.items, RESULT_AGGREGATOR).shape)

\* the try block, lines 324-345
try_block(gr) ==
    LET first == last_execution(gr)
    IN  IF first.kind # "skip" THEN first
        ELSE LET second == aggregator_result(gr)
             IN  IF second.kind # "skip" THEN second
                 ELSE IF gr.type = "str" THEN Returned(Value(gr))
                 ELSE Returned(Str(gr))

\* the for loop of lines 352-356 from node i on
RECURSIVE results_loop(_, _)
results_loop(d, i) ==
    IF i > Len(d) THEN Skip
    ELSE LET found == lookup_guarded(d[i].shape)
         IN  IF found.kind # "skip" THEN found ELSE results_loop(d, i + 1)

\* lines 351-356 without the try around them
any_node_result(gr) ==
    IF gr.results = NoAttr \/ gr.type = "str" THEN Skip
    ELSE IF gr.results = NoneAttr THEN Raised("AttributeError")
    ELSE results_loop(gr.results.items, 1)

\* the handler without its own try: what the loop raises leaves the function
fallback_unguarded(gr) ==
    LET found == any_node_result(gr)
    IN  IF found.kind = "skip" THEN Returned(Str(gr)) ELSE found

\* the except handler, lines 347-360
fallback(gr) ==
    LET found == any_node_result(gr)
    IN  IF found.kind = "return" THEN found ELSE Returned(Str(gr))

\* the number of logger.warning calls
Warnings(gr) ==
    IF try_block(gr).kind # "raise" THEN 0
    ELSE IF any_node_result(gr).kind = "raise" THEN 2 ELSE 1

extract_final_result(gr) ==
    LET tried == try_block(gr)
        out == IF tried.kind = "raise" THEN fallback(gr) ELSE tried
    IN  [exc |-> out.exc, value |-> out.value, warnings |-> Warnings(gr)]

NotExtracted == [exc |-> "", value |-> PyNone, warnings |-> 0]

ExtractIdle ==
    /\ graph_result = NoGraphResult
    /\ extracted = NotExtracted
    /\ ex_phase = "idle"

(***************************************************************************)
(* web_ui.py: the widgets and the session state of the dashboard.          *)
(***************************************************************************)
\* what the user may have typed into the text area: nothing, blanks, a
\* query, a query with blanks around it, a query of two words
QueryInputs == { <<>>, <<" ">>, <<" ", NL>>, <<"q">>, <<" ", "q", NL>>,
                 <<"q", " ", "r">> }

\* the select box: its empty first entry, or one of the example queries
EXAMPLE_QUERY ==
    << "L", "i", "s", "t", " ", "a", "l", "l", " ", "A", "W", "S", " ",
       "E", "C", "2", " ", "i", "n", "s", "t", "a", "n", "c", "e", "s",
       " ", "i", "n", " ", "u", "s", "-", "e", "a", "s", "t", "-", "1" >>
ExampleChoices == {<<>>, EXAMPLE_QUERY}

DashboardIdle ==
    /\ session = "new"
    /\ chat_history = <<>>
    /\ query_input = <<>>
    /\ selected_example = <<>>
    /\ trigger = ""

(***************************************************************************)
(* One run of a script.                                                    *)
(***************************************************************************)
\* agent-graph-ui.py: the query of the command-line entry point
\* sys.argv[1:]: nothing, two words, an argument with a space in it, an
\* empty argument
ArgvChoices == {<<>>, <<"find", "pods">>, <<"find", "EKS pods", "now">>, <<"">>}
\* what input() meets: end of input, a line, an empty line
StdinChoices == {"EOF", "list EKS clusters", ""}
\* input() is only called without arguments: with arguments the script is
\* run at end of input
CommandLines ==
    {<<args, line>> \in ArgvChoices \X StdinChoices : args # <<>> => line = "EOF"}
DEFAULT_QUERY == "What is 2+2?"

RECURSIVE Join(_)
Join(words) ==
    IF words = <<>> THEN ""
    ELSE IF Len(words) = 1 THEN words[1]
    ELSE words[1] \o " " \o Join(Tail(words))

\* the first argument only
read_input_first_argument(args, line) ==
    IF Len(args) > 0 THEN args[1]
    ELSE IF line = "EOF" THEN DEFAULT_QUERY
    ELSE line

\* if len(sys.argv) > 1: ' '.join(sys.argv[1:]) else: input(), EOFError
read_input(args, line) ==
    IF Len(args) > 0 THEN Join(args)
    ELSE IF line = "EOF" THEN DEFAULT_QUERY
    ELSE line

FilesRead(s) ==
    CASE s = AGENT_INTRO -> {}
      [] s = AGENT_TOOLS -> {SYSTEM_PROMPT_YAML}
      [] s = AGENT_GRAPH -> {KUBECTL_YAML}
      [] s = AGENT_GRAPH_UI -> {SYSTEM_PROMPT_YAML, KUBECTL_YAML}
      [] s = WEB_UI -> {KUBECTL_YAML}

\* web_ui.py branches on the environment; the other scripts only hand it on
\* to the server subprocesses, and are run with all of it unset or all set
EnvChoices(s) ==
    IF s = WEB_UI THEN [EnvNames -> {"", "set"}]
    ELSE {[v \in EnvNames |-> ""], [v \in EnvNames |-> "set"]}

NoCrash == [op |-> "", exc |-> "", pc |-> 0]
NoResponse == [success |-> FALSE, result |-> None, error |-> None, returned |-> FALSE]
AllClosed == [c \in Clients |-> "closed"]

Init ==
    /\ script \in Scripts
    /\ files \in {fs \in [FileNames -> Docs] :
                    \A f \in FileNames \ FilesRead(script) : fs[f] = AbsentDoc}
    /\ env \in EnvChoices(script)
    /\ pc = 1
    /\ status = "running"
    /\ crash = NoCrash
    /\ caught = ""
    /\ sessions = AllClosed
    /\ all_tools = <<>>
    /\ self_tools = <<>>
    /\ mcp_tools_loaded = FALSE
    /\ config = Doc("null", Missing, Missing)
    /\ loaded = Return(None)
    /\ agents = [a \in AgentNames |-> NoAgent]
    /\ graph = NoGraph
    /\ run = NoRun
    /\ printed = <<>>
    /\ user_input = ""
    /\ response = NoResponse
    /\ IF script = AGENT_GRAPH_UI
       THEN \E cl \in CommandLines : argv = cl[1] /\ stdin = cl[2]
       ELSE argv = <<>> /\ stdin = "EOF"
    /\ EventsIdle
    /\ MarkdownIdle
    /\ ExtractIdle
    /\ ServerEnvIdle
    /\ DashboardIdle

Prog == Program(script)
Running == status = "running" /\ pc \in DOMAIN Prog
Cur == Prog[pc]
At(op) == Running /\ Cur.op = op
NextPc == IF Cur.nx # 0 THEN Cur.nx ELSE pc + 1

\* normal completion of the current statement; an except clause that
\* completes has dealt with its exception
Step == pc' = NextPc /\ caught' = "" /\ UNCHANGED <<status, crash>>

\* the current statement raises exc: every open with-block is left (its
\* client session is closed), then the enclosing except clause runs, or,
\* without one, the script ends with the exception
Throw(exc) ==
    /\ sessions' = AllClosed
    /\ IF Cur.h # 0
       THEN pc' = Cur.h /\ caught' = exc /\ UNCHANGED <<status, crash>>
       ELSE /\ pc' = pc
            /\ caught' = ""
            /\ status' = "crashed"
            /\ crash' = [op |-> Cur.op, exc |-> exc, pc |-> pc]

Base(tl) == IF tl = "base3" THEN BaseTools3 ELSE BaseTools4

ToolVars == <<all_tools, self_tools>>
Frame ==
    <<script, files, env, argv, stdin, eventVars, mdVars, exVars, envVars, uiVars>>

\* all_tools = [calculator, current_time, use_aws, ...]
InitToolsStep ==
    /\ At("init_tools")
    /\ IF Cur.tv = "all_tools"
       THEN all_tools' = Base(Cur.tl) /\ UNCHANGED self_tools
       ELSE self_tools' = Base(Cur.tl) /\ UNCHANGED all_tools
    /\ Step
    /\ UNCHANGED <<Frame, sessions, mcp_tools_loaded, config, loaded, agents,
                   graph, run, printed, user_input, response>>

\* with client: entering starts the client's session, or fails
EnterStep ==
    /\ At("enter")
    /\ \/ /\ sessions' = [sessions EXCEPT ![Cur.c] = "open"]
          /\ Step
       \/ Throw("MCPClientInitializationError")
    /\ UNCHANGED <<Frame, ToolVars, mcp_tools_loaded, config, loaded, agents,
                   graph, run, printed, user_input, response>>

\* tools = client.list_tools_sync(), and the loop appending them
ListToolsStep ==
    /\ At("list_tools")
    /\ \/ /\ IF ~Cur.ap THEN UNCHANGED ToolVars
             ELSE IF Cur.tv = "all_tools"
             THEN all_tools' = all_tools \o ClientTools(Cur.c) /\ UNCHANGED self_tools
             ELSE self_tools' = self_tools \o ClientTools(Cur.c) /\ UNCHANGED all_tools
          /\ Step
          /\ UNCHANGED sessions
       \/ /\ Throw("MCPClientError")
          /\ UNCHANGED ToolVars
    /\ UNCHANGED <<Frame, mcp_tools_loaded, config, loaded, agents,
                   graph, run, printed, user_input, response>>

\* client.call_tool_sync(...), and the use of its result
CallToolStep ==
    /\ At("call_tool")
    /\ \/ Step /\ UNCHANGED sessions
       \/ Throw("MCPClientError")
    /\ UNCHANGED <<Frame, ToolVars, mcp_tools_loaded, config, loaded, agents,
                   graph, run, printed, user_input, response>>

\* the end of a with block
ExitStep ==
    /\ At("exit")
    /\ sessions' = [sessions EXCEPT ![Cur.c] = "closed"]
    /\ Step
    /\ UNCHANGED <<Frame, ToolVars, mcp_tools_loaded, config, loaded, agents,
                   graph, run, printed, user_input, response>>

PrintStep ==
    /\ At("print")
    /\ printed' = Append(printed, Cur.msg)
    /\ Step
    /\ UNCHANGED <<Frame, sessions, ToolVars, mcp_tools_loaded, config, loaded,
                   agents, graph, run, user_input, response>>

\* web_ui.py: if os.getenv(A) or os.getenv(B): ... (nx is the else branch)
IfEnvStep ==
    /\ At("if_env")
    /\ pc' = IF \E v \in Cur.ev : env[v] # "" THEN pc + 1 ELSE Cur.nx
    /\ UNCHANGED <<status, crash, caught>>
    /\ UNCHANGED <<Frame, sessions, ToolVars, mcp_tools_loaded, config, loaded,
                   agents, graph, run, printed, user_input, response>>

\* web_ui.py: self.mcp_tools_loaded = ..., with its log line
SetLoadedStep ==
    /\ At("set_loaded")
    /\ mcp_tools_loaded' = Cur.flag
    /\ printed' = IF Cur.msg = "" THEN printed ELSE Append(printed, Cur.msg)
    /\ Step
    /\ UNCHANGED <<Frame, sessions, ToolVars, config, loaded,
                   agents, graph, run, user_input, response>>

\* load_system_prompt(file): the call that yields the system_prompt
\* argument (agent-tools.py: the configuration)
LoadPromptStep ==
    /\ At("load_prompt")
    /\ LET doc == files[Cur.f]
           r == IF Cur.ld = "graph" THEN load_system_prompt_graph(doc)
                ELSE IF Cur.ld = "web" THEN load_system_prompt_web(doc)
                ELSE Return(None)
       IN  IF Cur.ld = "tools"
           THEN /\ config' = load_system_prompt_tools(doc)
                /\ Step
                /\ UNCHANGED <<loaded, sessions>>
           ELSE IF r.exc = ""
           THEN /\ loaded' = r
                /\ Step
                /\ UNCHANGED <<config, sessions>>
           ELSE /\ Throw(r.exc)
                /\ UNCHANGED <<config, loaded>>
    /\ UNCHANGED <<Frame, ToolVars, mcp_tools_loaded, agents,
                   graph, run, printed, user_input, response>>

\* agent-tools.py: if not config: config = {default}
DefaultConfigStep ==
    /\ At("default_config")
    /\ config' = default_config(config)
    /\ printed' = IF ConfigTruthy(config) THEN printed
                  ELSE Append(printed, "Using default system prompt")
    /\ Step
    /\ UNCHANGED <<Frame, sessions, ToolVars, mcp_tools_loaded, loaded,
                   agents, graph, run, user_input, response>>

\* the system_prompt argument of Agent(...)
PromptArg(src) ==
    CASE src = "literal" -> Return(INLINE_PROMPT)
      [] src = "unset" -> Return(None)
      [] src = "loaded" -> Return(loaded.val)
      [] src = "loaded_or_fallback" ->
            Return(IF Truthy(loaded.val) THEN loaded.val ELSE WEB_KUBECTL_FALLBACK)
      [] src = "config" -> agent_kwargs_tools(config)

\* the tools argument of Agent(...)
ToolsArg(tl) ==
    CASE tl = "none" -> <<>>
      [] tl = "shell" -> <<"shell">>
      [] tl = "all_tools" -> all_tools
      [] tl = "self_tools" -> self_tools

\* name = Agent(system_prompt=..., tools=...)
ConstructStep ==
    /\ At("construct")
    /\ LET r == PromptArg(Cur.src)
       IN  IF r.exc = ""
           THEN /\ agents' = [agents EXCEPT ![Cur.a] =
                       [built |-> TRUE, system_prompt |-> r.val,
                        tools |-> ToolsArg(Cur.tl)]]
                /\ Step
                /\ UNCHANGED sessions
           ELSE /\ Throw(r.exc)
                /\ UNCHANGED agents
    /\ UNCHANGED <<Frame, ToolVars, mcp_tools_loaded, config, loaded,
                   graph, run, printed, user_input, response>>

\* builder = GraphBuilder(); add_node ...; add_edge ...; graph = builder.build()
BuildGraphStep ==
    /\ At("build_graph")
    /\ graph' = build(Builder(Cur.g))
    /\ Step
    /\ UNCHANGED <<Frame, sessions, ToolVars, mcp_tools_loaded, config, loaded,
                   agents, run, printed, user_input, response>>


(***************************************************************************)
(* The graph run: result = graph(query). The framework starts a node when  *)
(* it is ready and the call returns when nothing is running or ready; a    *)
(* node that fails makes the call raise.                                   *)
(***************************************************************************)
WEB_QUERY == "Find issues with EKS cluster sliverblaze"

\* str(e) of the exceptions a graph run ends with
NOT_INITIALIZED == "Agent graph not initialized properly"
Message(exc) == IF exc = "ValueError" THEN NOT_INITIALIZED ELSE exc

Query(q) ==
    CASE q = "fixed" -> FIXED_QUERY
      [] q = "user_input" -> user_input
      [] q = "query" -> WEB_QUERY

GraphStart ==
    /\ At("run_graph")
    /\ ~run.active
    /\ IF graph = NoGraph
       THEN Throw("ValueError") /\ UNCHANGED run
       ELSE /\ run' = [active |-> TRUE, running |-> {}, started |-> <<>>,
                       returned |-> <<>>, query |-> Query(Cur.q),
                       count |-> run.count + 1, nodes |-> NodeIds(graph)]
            /\ UNCHANGED <<pc, status, crash, caught, sessions>>
    /\ UNCHANGED <<Frame, ToolVars, mcp_tools_loaded, config, loaded,
                   agents, graph, printed, user_input, response>>

NodeStart(n) ==
    /\ At("run_graph")
    /\ run.active
    /\ n \in Ready(graph, run)
    /\ run' = [run EXCEPT !.running = @ \cup {n}, !.started = Append(@, n)]
    /\ UNCHANGED <<Frame, pc, status, crash, caught, sessions, ToolVars,
                   mcp_tools_loaded, config, loaded, agents, graph, printed,
                   user_input, response>>

NodeReturn(n) ==
    /\ At("run_graph")
    /\ run.active
    /\ n \in run.running
    /\ \/ /\ run' = [run EXCEPT !.running = @ \ {n}, !.returned = Append(@, n)]
          /\ UNCHANGED <<pc, status, crash, caught, sessions>>
       \/ /\ run' = [run EXCEPT !.running = {}, !.active = FALSE]
          /\ Throw("NodeFailure")
    /\ UNCHANGED <<Frame, ToolVars, mcp_tools_loaded, config, loaded,
                   agents, graph, printed, user_input, response>>

GraphReturn ==
    /\ At("run_graph")
    /\ run.active
    /\ run.running = {}
    /\ Ready(graph, run) = {}
    /\ run' = [run EXCEPT !.active = FALSE]
    /\ Step
    /\ UNCHANGED <<Frame, sessions, ToolVars, mcp_tools_loaded, config, loaded,
                   agents, graph, printed, user_input, response>>

\* result = agent("...")
RunAgentStep ==
    /\ At("run_agent")
    /\ \/ Step /\ UNCHANGED sessions
       \/ Throw("AgentFailure")
    /\ UNCHANGED <<Frame, ToolVars, mcp_tools_loaded, config, loaded,
                   agents, graph, run, printed, user_input, response>>

ReadInputStep ==
    /\ At("read_input")
    /\ user_input' = read_input(argv, stdin)
    /\ Step
    /\ UNCHANGED <<Frame, sessions, ToolVars, mcp_tools_loaded, config, loaded,
                   agents, graph, run, printed, response>>

FormatPrintStep ==
    /\ At("format_print")
    /\ printed' = Append(printed, "formatted output")
    /\ Step
    /\ UNCHANGED <<Frame, sessions, ToolVars, mcp_tools_loaded, config, loaded,
                   agents, graph, run, user_input, response>>

\* what graph(query) returns to execute_query: a result whose last node
\* holds a text, and one whose last node holds no message
RunResults ==
    {[type |-> "GraphResult", text |-> GRAPH_RESULT_REPR,
      execution_order |-> Attr(<<sh>>), results |-> Attr(<<>>)] :
        sh \in {"text", "no message"}}

ERROR_PREFIX == "Error executing query: "

Success(v) == [success |-> TRUE, result |-> v, error |-> None, returned |-> TRUE]
Failure(msg) ==
    [success |-> FALSE, result |-> None, error |-> ERROR_PREFIX \o msg,
     returned |-> TRUE]

\* web_ui.py execute_query: final_result = self._extract_final_result(result);
\* return {"success": True, ...}; an exception of the extraction is caught
\* by the same except clause as one of the graph run
ReturnResultStep ==
    /\ At("return_result")
    /\ \E gr \in RunResults :
          LET final_result == extract_final_result(gr)
          IN  response' = IF final_result.exc = ""
                          THEN Success(final_result.value.text)
                          ELSE Failure(Message(final_result.exc))
    /\ Step
    /\ UNCHANGED <<Frame, sessions, ToolVars, mcp_tools_loaded, config, loaded,
                   agents, graph, run, printed, user_input>>

\* the except clause returning a success record
ReturnErrorStep_as_success ==
    /\ At("return_error")
    /\ response' = Success(ERROR_PREFIX \o Message(caught))
    /\ Step
    /\ UNCHANGED <<Frame, sessions, ToolVars, mcp_tools_loaded, config, loaded,
                   agents, graph, run, printed, user_input>>

\* web_ui.py execute_query: except Exception as e: return {"success": False,
\* "result": None, "error": f"Error executing query: {str(e)}"}
ReturnErrorStep ==
    /\ At("return_error")
    /\ response' = Failure(Message(caught))
    /\ Step
    /\ UNCHANGED <<Frame, sessions, ToolVars, mcp_tools_loaded, config, loaded,
                   agents, graph, run, printed, user_input>>

\* the script has run to its end
Finish ==
    /\ status = "running"
    /\ pc > Len(Prog)
    /\ status' = "done"
    /\ UNCHANGED <<Frame, pc, crash, caught, sessions, ToolVars, mcp_tools_loaded,
                   config, loaded, agents, graph, run, printed, user_input,
                   response>>

Next ==
    \/ InitToolsStep
    \/ EnterStep
    \/ ListToolsStep
    \/ CallToolStep
    \/ ExitStep
    \/ PrintStep
    \/ IfEnvStep
    \/ SetLoadedStep
    \/ LoadPromptStep
    \/ DefaultConfigStep
    \/ ConstructStep
    \/ BuildGraphStep
    \/ GraphStart
    \/ \E n \in NodeIds(graph) : NodeStart(n)
    \/ \E n \in NodeIds(graph) : NodeReturn(n)
    \/ GraphReturn
    \/ RunAgentStep
    \/ ReadInputStep
    \/ FormatPrintStep
    \/ ReturnResultStep
    \/ ReturnErrorStep
    \/ Finish

Spec == Init /\ [][Next]_vars


(***************************************************************************)
(* Properties of a script run.                                             *)
(***************************************************************************)
IsPrefix(a, b) == Len(a) <= Len(b) /\ \A i \in DOMAIN a : a[i] = b[i]

\* the stages of the pipeline, decomposer -> executor -> aggregator
Pipeline ==
    IF run.nodes = {} THEN <<>>
    ELSE IF "executor" \in run.nodes
    THEN <<"task_decomposer", "executor", "result_aggregator">>
    ELSE <<"task_decomposer", "kubectl_command_agent", "result_aggregator">>

\* C1: in every graph run the stages start in the order decomposer,
\* executor, aggregator: what has started is a prefix of the pipeline (no
\* stage twice, none out of order), and a stage starts only when every
\* stage started before it has returned.
C1_StagesRunInOrder ==
    /\ IsPrefix(run.started, Pipeline)
    /\ IsPrefix(run.returned, run.started)
    /\ Len(run.started) <= Len(run.returned) + 1

\* the command-line run of agent-graph-ui.py has finished its second graph
\* run, the one of execute_task, with all three stages returned
C1_Witness ==
    /\ script = AGENT_GRAPH_UI
    /\ run.count = 2
    /\ ~run.active
    /\ run.returned = <<"task_decomposer", "executor", "result_aggregator">>

\* the agents whose system prompt comes from a prompt file, and the file
LoadedAgents == {"agent", "kubectl_command_agent",
                 "execute_task.task_decomposer", "execute_task.executor"}

PromptFile(a) ==
    IF a \in {"agent", "execute_task.task_decomposer"} THEN SYSTEM_PROMPT_YAML
    ELSE KUBECTL_YAML

HardCodedDefaults == {WEB_DEFAULT_PROMPT, WEB_KUBECTL_FALLBACK, TOOLS_DEFAULT_PROMPT}

Unreadable(doc) == doc.kind \in {"absent", "malformed"}
Declares(doc) == doc.kind = "mapping" /\ doc.prompt \notin {Missing, None}

\* the run ended with an exception raised by the construction of agent a
CrashedConstructing(a) ==
    /\ status = "crashed"
    /\ crash.op = "construct"
    /\ Prog[crash.pc].a = a

\* C2: when the prompt file is absent or does not parse, the agent is
\* constructed with a hard-coded default prompt, never with None.
C2_DefaultPromptWhenUnreadable ==
    \A a \in LoadedAgents :
        (agents[a].built /\ Unreadable(files[PromptFile(a)]))
            => agents[a].system_prompt \in HardCodedDefaults

\* C3: when the prompt file is a well-formed mapping that declares a
\* system_prompt, the agent is constructed, and with exactly that prompt.
C3_DeclaredPromptSurfaced ==
    \A a \in LoadedAgents :
        Declares(files[PromptFile(a)])
            => /\ agents[a].built
                     => agents[a].system_prompt = files[PromptFile(a)].prompt
               /\ ~CrashedConstructing(a)

\* C4: a prompt file that declares system_prompt but no agent metadata
\* does not make the construction of the agent raise.
C4_MetadataOptional ==
    \A a \in LoadedAgents :
        (Declares(files[PromptFile(a)]) /\ files[PromptFile(a)].meta = Missing)
            => ~CrashedConstructing(a)

\* C5: a protocol client that fails to start or to list its tools never
\* ends the script.
C5_ClientFailureNeverEndsScript ==
    ~(status = "crashed" /\ crash.op \in {"enter", "list_tools"})

\* C9: load_system_prompt never raises, whatever the state of the file.
C9_LoadNeverRaises ==
    ~(status = "crashed" /\ crash.op = "load_prompt")


(***************************************************************************)
(* The callbacks of one dashboard session (web_ui.py).                     *)
(***************************************************************************)
MaxEvents == 2

ScriptIdle ==
    /\ script = WEB_UI
    /\ files = [f \in FileNames |-> AbsentDoc]
    /\ env = [v \in EnvNames |-> ""]
    /\ pc = Len(web_ui) + 1
    /\ status = "done"
    /\ crash = NoCrash
    /\ caught = ""
    /\ sessions = AllClosed
    /\ all_tools = BaseTools4
    /\ self_tools = <<>>
    /\ mcp_tools_loaded = FALSE
    /\ config = Doc("null", Missing, Missing)
    /\ loaded = Return(None)
    /\ agents = [a \in AgentNames |-> NoAgent]
    /\ graph = build(builder_module)
    /\ run = NoRun
    /\ printed = <<>>
    /\ user_input = ""
    /\ response = NoResponse
    /\ argv = <<>>
    /\ stdin = "EOF"

InitEvents ==
    /\ ScriptIdle /\ EventsIdle /\ MarkdownIdle /\ ExtractIdle /\ ServerEnvIdle
    /\ DashboardIdle

\* process_event(**kwargs): self.event_handler_func(kwargs), up to the
\* end of the function
process_event ==
    /\ ~in_handler
    /\ now < MaxEvents
    /\ now' = now + 1
    /\ in_handler' = TRUE
    /\ \E e \in Payloads :
          LET l == event_handler_func(e)
          IN  /\ event' = e
              /\ handled' = l
              /\ agent_events' = IF Recorded(l)
                                 THEN Append(agent_events, AgentEvent(now, l))
                                 ELSE agent_events
    /\ UNCHANGED <<scriptVars, mdVars, exVars, envVars, uiVars>>

\* the function returns (or its exception leaves it): its locals are gone
HandlerReturn ==
    /\ in_handler
    /\ in_handler' = FALSE
    /\ event' = NoPayload
    /\ handled' = Locals0
    /\ UNCHANGED <<agent_events, now, scriptVars, mdVars, exVars, envVars, uiVars>>

NextEvents ==
    \/ process_event
    \/ HandlerReturn

SpecEvents == InitEvents /\ [][NextEvents]_vars


(***************************************************************************)
(* Properties of event_handler_func.                                       *)
(***************************************************************************)
\* the payload holds "current_tool_use" with a non-empty name
HasNamedToolUse(e) ==
    /\ e.current_tool_use.present
    /\ e.current_tool_use.name \notin {Missing, None, ""}

\* no block after the first assigns event_type or tool_name: no "data", no
\* "event" member other than a contentBlockDelta without text, no
\* current_tool_use inside "delta", no message with a role
NothingOverrides(e) ==
    /\ e.data = Missing
    /\ \/ ~e.event.present
       \/ /\ ~e.event.messageStart
          /\ \/ e.event.key = ""
             \/ /\ e.event.key = "contentBlockDelta"
                /\ e.event.delta \in {"no delta", "empty delta", "toolUse"}
    /\ ~(e.delta.present /\ e.delta.ctu)
    /\ e.message # "with role"

\* C6 as claimed: a payload with a named current_tool_use ends as tool_use
\* with that tool name, whatever other keys it carries.
C6_ToolUseForEveryCombination ==
    (in_handler /\ HasNamedToolUse(event))
        => /\ handled.exc = ""
           /\ handled.event_type = "tool_use"
           /\ handled.tool_name = event.current_tool_use.name

\* C6 as amended: a payload with a named current_tool_use ends as tool_use
\* with that tool name when no later block of the function overrides the
\* label or the name.
C6_ToolUseWhenNotOverridden ==
    (in_handler /\ HasNamedToolUse(event) /\ NothingOverrides(event))
        => /\ handled.exc = ""
           /\ handled.event_type = "tool_use"
           /\ handled.tool_name = event.current_tool_use.name

\* a named current_tool_use together with a "delta" and a tool-input
\* content block delta has been classified as tool_use
C6_Witness ==
    /\ in_handler
    /\ HasNamedToolUse(event)
    /\ NothingOverrides(event)
    /\ event.delta.present
    /\ event.event.key = "contentBlockDelta"
    /\ handled.event_type = "tool_use"
    /\ handled.tool_name = CTU_NAME

\* C10: event_handler_func returns without raising for every payload, also
\* one where a recognised key is present and a nested key is missing: a
\* missing key leaves its field at the empty string instead of raising.
C10_ToleratesMissingKeys ==
    in_handler =>
        /\ handled.exc = ""
        /\ (event.delta.ctu /\ event.delta.name = Missing) => handled.tool_name = ""
        /\ (event.delta.ctu /\ event.delta.input = Missing) => handled.tool_input = ""

(***************************************************************************)
(* The clean-up pass of format_markdown_output on every short text.        *)
(***************************************************************************)
InitMarkdown ==
    /\ ScriptIdle
    /\ EventsIdle
    /\ md_variant \in {"module", "method"}
    /\ md_text \in Texts
    /\ md_output = <<>>
    /\ md_phase = "input"
    /\ ExtractIdle
    /\ ServerEnvIdle
    /\ DashboardIdle

\* formatted_output = format_markdown_output(result), from the split on
FormatMarkdown ==
    /\ md_phase = "input"
    /\ md_output' = clean_up(md_variant, md_text)
    /\ md_phase' = "formatted"
    /\ UNCHANGED <<md_variant, md_text, scriptVars, eventVars, exVars, envVars, uiVars>>

\* the same pass applied to the text it returned
FormatAgain ==
    /\ md_phase = "formatted"
    /\ md_text' = md_output
    /\ md_output' = clean_up(md_variant, md_output)
    /\ md_phase' = "reformatted"
    /\ UNCHANGED <<md_variant, scriptVars, eventVars, exVars, envVars, uiVars>>

NextMarkdown ==
    \/ FormatMarkdown
    \/ FormatAgain

SpecMarkdown == InitMarkdown /\ [][NextMarkdown]_vars


(***************************************************************************)
(* Properties of the clean-up pass.                                        *)
(***************************************************************************)
Formatted == md_phase = "formatted"
InLines == SplitLines(md_text)
OutLines == SplitLines(md_output)

KEY_FINDINGS == <<"K", "e", "y", " ", "F", "i", "n", "d", "i", "n", "g", "s">>
HEADING_KEY_FINDINGS == <<"#", "#", " ">> \o KEY_FINDINGS

\* s without the whitespace at its end
WithoutTrailingWhitespace(s) ==
    LET k == CHOOSE n \in 0..Len(s) :
                 /\ \A j \in (n + 1)..Len(s) : s[j] \in Whitespace
                 /\ n > 0 => s[n] \notin Whitespace
    IN  SubSeq(s, 1, k)

KeyFindingsBecomesHeading ==
    \A i \in DOMAIN InLines :
        InLines[i] = KEY_FINDINGS => OutLines[i] = HEADING_KEY_FINDINGS

\* C7 as stated: in both variants the line "Key Findings" is returned as
\* "## Key Findings", and every line that starts with '#' is returned
\* unchanged.
C7_HeadingsUntouched ==
    Formatted =>
        /\ Len(OutLines) = Len(InLines)
        /\ KeyFindingsBecomesHeading
        /\ \A i \in DOMAIN InLines :
               StartsWith(InLines[i], <<"#">>) => OutLines[i] = InLines[i]

\* C7, amended: in both variants the line "Key Findings" is returned as
\* "## Key Findings", and every line that starts with '#' is returned
\* without the whitespace at its end and otherwise unchanged: no "## " is put
\* in front of it.
C7_HeadingsOnlyLoseTrailingWhitespace ==
    Formatted =>
        /\ Len(OutLines) = Len(InLines)
        /\ KeyFindingsBecomesHeading
        /\ \A i \in DOMAIN InLines :
               StartsWith(InLines[i], <<"#">>) =>
                   OutLines[i] = WithoutTrailingWhitespace(InLines[i])

\* a text with the line "Key Findings", made a heading, and a line that
\* starts with '#', names a section and ends in whitespace, returned without
\* that whitespace
C7_Witness ==
    /\ Formatted
    /\ \E i \in DOMAIN InLines :
           InLines[i] = KEY_FINDINGS /\ OutLines[i] = HEADING_KEY_FINDINGS
    /\ \E i \in DOMAIN InLines :
           /\ StartsWith(InLines[i], <<"#">>)
           /\ IsHeader(InLines[i])
           /\ OutLines[i] # InLines[i]
           /\ OutLines[i] = WithoutTrailingWhitespace(InLines[i])


(***************************************************************************)
(* _extract_final_result on every shape of graph result.                   *)
(***************************************************************************)
InitExtract ==
    /\ ScriptIdle
    /\ EventsIdle
    /\ MarkdownIdle
    /\ graph_result \in GraphResults
    /\ extracted = NotExtracted
    /\ ex_phase = "input"
    /\ ServerEnvIdle
    /\ DashboardIdle

\* final_result = self._extract_final_result(result)
ExtractFinalResult ==
    /\ ex_phase = "input"
    /\ extracted' = extract_final_result(graph_result)
    /\ ex_phase' = "returned"
    /\ UNCHANGED <<graph_result, scriptVars, eventVars, mdVars, envVars, uiVars>>

NextExtract == ExtractFinalResult

SpecExtract == InitExtract /\ [][NextExtract]_vars

(***************************************************************************)
(* Properties of _extract_final_result.                                    *)
(***************************************************************************)
YieldsText(shape) == shape \in {"text", "text None"}

\* none of the three lookups has a text to give: not the last entry of
\* execution_order, not results['result_aggregator'], not any node of results
NoLookupYieldsText(gr) ==
    /\ \A i \in DOMAIN gr.execution_order.items :
           i = Len(gr.execution_order.items) => ~YieldsText(gr.execution_order.items[i])
    /\ \A i \in DOMAIN gr.results.items : ~YieldsText(gr.results.items[i].shape)

\* C8: _extract_final_result never raises and returns a string, and when
\* the lookups are absent or raise the string is str(graph_result).
C8_ExtractFallsBackToStr ==
    ex_phase = "returned" =>
        /\ extracted.exc = ""
        /\ extracted.value.type = "str"
        /\ NoLookupYieldsText(graph_result) =>
               extracted.value = PyStr(graph_result.text)

\* the lookup in execution_order raised, the loop over results raised too,
\* and str(graph_result) was returned
C8_Witness ==
    /\ ex_phase = "returned"
    /\ graph_result.type = "GraphResult"
    /\ NoLookupYieldsText(graph_result)
    /\ last_execution(graph_result).kind = "raise"
    /\ graph_result.results.items # <<>>
    /\ extracted.warnings = 2
    /\ extracted.exc = ""
    /\ extracted.value = PyStr(GRAPH_RESULT_REPR)

(***************************************************************************)
(* The server subprocesses under every setting of the environment.         *)
(***************************************************************************)
InitServerEnv ==
    /\ ScriptIdle
    /\ EventsIdle
    /\ MarkdownIdle
    /\ ExtractIdle
    /\ environ \in [ServerEnvNames -> EnvValues]
    /\ server_env = [c \in Clients |-> NotStarted]
    /\ DashboardIdle

\* the lambda handed to MCPClient runs: stdio_client(StdioServerParameters(...))
StartServer(c) ==
    /\ ~server_env[c].started
    /\ server_env' = [server_env EXCEPT
                         ![c] = [started |-> TRUE, env |-> stdio_server_env(c, environ)]]
    /\ UNCHANGED <<environ, scriptVars, eventVars, mdVars, exVars, uiVars>>

NextServerEnv == \E c \in Clients : StartServer(c)

SpecServerEnv == InitServerEnv /\ [][NextServerEnv]_vars

(***************************************************************************)
(* Properties of the server environment.                                   *)
(***************************************************************************)
\* the variables a client's server is handed
HandedTo(c) == {n \in ServerEnvNames : server_env[c].env[n] # Missing}

\* C11 as stated: every variable handed to a server that is unset in the
\* environment is handed on as the empty string.
C11_UnsetBecomesEmpty ==
    \A c \in Clients : server_env[c].started =>
        \A n \in HandedTo(c) : environ[n] = Missing => server_env[c].env[n] = ""

\* C11, amended: the three credential variables are handed on as the empty
\* string when unset, the region variable as "us-east-1" when unset, and
\* every variable that is set is handed on with its value.
C11_UnsetBecomesDefault ==
    /\ server_env[AWS_DOCS].started =>
           HandedTo(AWS_DOCS) =
               {AWS_ACCESS_KEY_ID, AWS_SECRET_ACCESS_KEY, AWS_DEFAULT_REGION}
    /\ server_env[GITHUB].started =>
           HandedTo(GITHUB) = {GITHUB_PERSONAL_ACCESS_TOKEN}
    /\ \A c \in Clients : server_env[c].started =>
           \A n \in HandedTo(c) :
               server_env[c].env[n] =
                   IF environ[n] # Missing THEN environ[n]
                   ELSE IF n = AWS_DEFAULT_REGION THEN "us-east-1"
                   ELSE ""

\* both servers started with nothing set: empty credentials, default region
C11_Witness ==
    /\ \A n \in ServerEnvNames : environ[n] = Missing
    /\ \A c \in Clients : server_env[c].started
    /\ server_env[AWS_DOCS].env[AWS_ACCESS_KEY_ID] = ""
    /\ server_env[AWS_DOCS].env[AWS_DEFAULT_REGION] = "us-east-1"
    /\ server_env[GITHUB].env[GITHUB_PERSONAL_ACCESS_TOKEN] = ""

(***************************************************************************)
(* Properties of the client sessions in a script run.                      *)
(***************************************************************************)
\* the statement about to run is inside an except clause or after the last
\* with block of its script: every block has been left
Ended == status \in {"done", "crashed"}

\* C12: list_tools_sync and call_tool_sync are only called on a client whose
\* session is open; a script that has ended, normally or by an exception,
\* has no session left open; and a with block is only entered on a client
\* whose session is closed, so no client has two sessions at once.
C12_SessionsScoped ==
    /\ [](Running /\ Cur.op \in {"list_tools", "call_tool"}
             => sessions[Cur.c] = "open")
    /\ [](Ended => sessions = AllClosed)
    /\ [][EnterStep => sessions[Cur.c] = "closed"]_vars

\* list_tools_sync raised inside a with block, nothing caught it, and the
\* session the block had opened is closed
C12_Witness ==
    /\ status = "crashed"
    /\ crash.op = "list_tools"
    /\ sessions = AllClosed

(***************************************************************************)
(* Properties of the event list.                                           *)
(***************************************************************************)
\* the kinds the dashboard event log has an entry for
ShownKinds == {"tool_use", "text", "message"}

\* C13: every callback that event_handler_func classifies as tool_use, text
\* or message appends exactly one AgentEvent, holding the timestamp, kind,
\* tool name, tool input and message of that callback, to the end of
\* agent_events.
C13_ClassifiedEventsCollected ==
    [][process_event =>
          (handled'.exc = "" /\ handled'.event_type \in ShownKinds
              => agent_events' = Append(agent_events, AgentEvent(now, handled')))]_vars

(***************************************************************************)
(* Properties of the command-line entry point of agent-graph-ui.py.        *)
(***************************************************************************)
\* the entry point has read its query
QueryRead == \E i \in 1..(pc - 1) : i \in DOMAIN Prog /\ Prog[i].op = "read_input"
\* the graph run of execute_task is under way
InExecuteTask == At("run_graph") /\ Cur.q = "user_input" /\ run.active

\* the arguments of ArgvChoices joined by single spaces, written out
JoinedBySpaces(args) ==
    CASE args = <<"find", "pods">> -> "find pods"
      [] args = <<"find", "EKS pods", "now">> -> "find EKS pods now"
      [] args = <<"">> -> ""

ExpectedQuery ==
    IF argv # <<>> THEN JoinedBySpaces(argv)
    ELSE IF stdin = "EOF" THEN "What is 2+2?"
    ELSE stdin

\* C14: once the entry point has read its query, the query is the arguments
\* joined by single spaces when there are any, else the line read, else, at
\* end of input, "What is 2+2?"; and the graph run of execute_task is given
\* that query.
C14_QueryFromArgumentsOrInput ==
    QueryRead =>
        /\ user_input = ExpectedQuery
        /\ InExecuteTask => run.query = ExpectedQuery

\* three arguments, one of them with a space in it, reached execute_task
\* joined by single spaces
C14_Witness ==
    /\ script = AGENT_GRAPH_UI
    /\ argv = <<"find", "EKS pods", "now">>
    /\ InExecuteTask
    /\ run.query = "find EKS pods now"

(***************************************************************************)
(* Properties of the order of the stages of a script.                      *)
(***************************************************************************)
IsFormatted(line) == line = "formatted output"

\* how many results the script has formatted and handed on for display:
\* the print of format_markdown_output in agent-graph-ui.py, the record with
\* the extracted result that execute_query returns to the dashboard
Displayed ==
    Len(SelectSeq(printed, IsFormatted))
        + (IF response.returned /\ response.success THEN 1 ELSE 0)

\* the graph runs that have returned: all but the last, and the last when
\* it is over and every node it started has returned
LastRunReturned == ~run.active /\ Range(run.started) = Range(run.returned)
RunsReturned ==
    IF run.count = 0 THEN 0
    ELSE (run.count - 1) + (IF LastRunReturned THEN 1 ELSE 0)

\* C15: a graph run only starts on a built graph all of whose agents have
\* been constructed, and a script that has run to its end has formatted and
\* displayed the result of every graph run that returned.
C15_StagesInOrder ==
    /\ run.active =>
           /\ graph # NoGraph
           /\ \A i \in DOMAIN graph.nodes : agents[graph.nodes[i].agent].built
    /\ status = "done" => Displayed = RunsReturned

(***************************************************************************)
(* Properties of the shape of the graph.                                   *)
(***************************************************************************)
\* the nodes that can be reached from the set s along the edges of g
RECURSIVE ReachableFrom(_, _)
ReachableFrom(g, s) ==
    LET further == s \cup {e[2] : e \in {d \in g.edges : d[1] \in s}}
    IN  IF further = s THEN s ELSE ReachableFrom(g, further)

TimesRun(n) == Cardinality({i \in DOMAIN run.returned : run.returned[i] = n})

\* C16: every node added to the builder can be reached from the entry point
\* of the built graph, and a graph run that has returned has run every node
\* of its graph exactly once.
C16_EveryNodeRunsOnce ==
    /\ graph # NoGraph =>
           ReachableFrom(graph, graph.entry_points) = NodeIds(graph)
    /\ (run.count > 0 /\ LastRunReturned) =>
           \A n \in run.nodes : TimesRun(n) = 1

(***************************************************************************)
(* Properties of execute_query.                                            *)
(***************************************************************************)
\* the texts an exception of the graph run can carry
RunFailures == {"NodeFailure", "Agent graph not initialized properly"}

\* C17: execute_query never raises; the record it returns has success true
\* exactly when error is None; on success result is the extracted string; on
\* an exception result is None and error is "Error executing query: "
\* followed by the message of the exception.
C17_ExecuteQueryRecord ==
    /\ (script = WEB_UI /\ status = "crashed")
           => crash.op \notin {"run_graph", "return_result", "return_error"}
    /\ response.returned =>
           /\ response.success <=> response.error = None
           /\ response.success =>
                  response.result \in {"final answer", "GraphResult(...)"}
           /\ ~response.success =>
                  /\ response.result = None
                  /\ \E msg \in RunFailures :
                         response.error = "Error executing query: " \o msg

\* a node of the graph failed and execute_query returned the failure record
C17_Witness ==
    /\ script = WEB_UI
    /\ status = "done"
    /\ response.returned
    /\ ~response.success
    /\ response.result = None
    /\ response.error = "Error executing query: NodeFailure"

(***************************************************************************)
(* Properties of _initialize_tools of web_ui.py.                           *)
(***************************************************************************)
\* _initialize_tools has returned: the run is past its last statement, the
\* except clause
InitializeToolsDone ==
    /\ script = WEB_UI
    /\ \E i \in 1..(pc - 1) :
          /\ i \in DOMAIN Prog
          /\ Prog[i].op = "set_loaded"
          /\ Prog[i].msg = "Could not load MCP tools"

\* C20: after _initialize_tools, when mcp_tools_loaded is False, all_tools
\* is the four basic tools and nothing else.
C20_NotLoadedMeansBasicTools ==
    (InitializeToolsDone /\ ~mcp_tools_loaded) =>
        all_tools = <<"calculator", "current_time", "use_aws", "shell">>

(***************************************************************************)
(* One browser session of the dashboard. Every action of the user makes    *)
(* Streamlit run main() again from the top, with st.session_state and the  *)
(* values of the widgets kept.                                             *)
(***************************************************************************)
MaxQueries == 2

\* the manager as StrandsAgentManager() leaves it
InitDashboard ==
    /\ ScriptIdle
    /\ EventsIdle
    /\ MarkdownIdle
    /\ ExtractIdle
    /\ ServerEnvIdle
    /\ DashboardIdle

managerVars == <<scriptVars, event, handled, in_handler>>
otherVars == <<mdVars, exVars, envVars>>

\* the first runs of main(): st.session_state.agent_manager =
\* StrandsAgentManager(), which may raise and end the run before any widget
\* is drawn, then st.session_state.chat_history = []
OpenPage ==
    /\ session \in {"new", "failed"}
    /\ \/ session' = "ready" /\ chat_history' = <<>>
       \/ session' = "failed" /\ UNCHANGED chat_history
    /\ trigger' = "page"
    /\ UNCHANGED <<query_input, selected_example, agent_events, now,
                   managerVars, otherVars>>

\* the user edits the text area
TypeQuery ==
    /\ session = "ready"
    /\ \E q \in QueryInputs \ {query_input} : query_input' = q
    /\ trigger' = "text_area"
    /\ UNCHANGED <<session, chat_history, selected_example, agent_events, now,
                   managerVars, otherVars>>

\* the user picks an entry of the select box
SelectExample ==
    /\ session = "ready"
    /\ \E e \in ExampleChoices \ {selected_example} : selected_example' = e
    /\ trigger' = "selectbox"
    /\ UNCHANGED <<session, chat_history, query_input, agent_events, now,
                   managerVars, otherVars>>

\* if selected_example and st.button("Use Example"): query_input =
\* selected_example -- a local variable of this run, in which the Execute
\* button is not pressed
UseExample ==
    /\ session = "ready"
    /\ selected_example # <<>>
    /\ trigger' = "Use Example"
    /\ UNCHANGED <<session, chat_history, query_input, selected_example,
                   agent_events, now, managerVars, otherVars>>

\* the message callback of a graph run, as process_event records it
MessagePayload == [NoPayload EXCEPT !.message = "with role"]

\* what execute_query may return
Responses == {Success(FINAL_TEXT), Failure("NodeFailure")}

\* Clear Chat History wiping the event log as well
PressClear_with_events ==
    /\ session = "ready"
    /\ chat_history' = <<>>
    /\ agent_events' = <<>>
    /\ trigger' = "Clear Chat History"
    /\ UNCHANGED <<session, query_input, selected_example, now,
                   managerVars, otherVars>>

\* if st.button("Clear Chat History"): st.session_state.chat_history = [];
\* st.rerun()
PressClear ==
    /\ session = "ready"
    /\ chat_history' = <<>>
    /\ trigger' = "Clear Chat History"
    /\ UNCHANGED <<session, query_input, selected_example, agent_events, now,
                   managerVars, otherVars>>

\* Execute Query appending the query as typed
PressExecute_untrimmed ==
    /\ session = "ready"
    /\ trigger' = "Execute Query"
    /\ IF Strip(query_input) = <<>>
       THEN UNCHANGED <<chat_history, agent_events, now>>
       ELSE /\ now < MaxQueries
            /\ now' = now + 1
            /\ \E r \in Responses, logged \in BOOLEAN :
                  /\ chat_history' = Append(chat_history, <<query_input, r>>)
                  /\ agent_events' =
                        IF logged
                        THEN Append(agent_events,
                                    AgentEvent(now, event_handler_func(MessagePayload)))
                        ELSE agent_events
    /\ UNCHANGED <<session, query_input, selected_example, managerVars, otherVars>>

\* if st.button("Execute Query") and query_input.strip(): response =
\* agent_manager.execute_query(query_input.strip(), ...);
\* chat_history.append((query_input.strip(), response)); st.rerun()
PressExecute ==
    /\ session = "ready"
    /\ trigger' = "Execute Query"
    /\ IF Strip(query_input) = <<>>
       THEN UNCHANGED <<chat_history, agent_events, now>>
       ELSE /\ now < MaxQueries
            /\ now' = now + 1
            /\ \E r \in Responses, logged \in BOOLEAN :
                  /\ chat_history' = Append(chat_history, <<Strip(query_input), r>>)
                  /\ agent_events' =
                        IF logged
                        THEN Append(agent_events,
                                    AgentEvent(now, event_handler_func(MessagePayload)))
                        ELSE agent_events
    /\ UNCHANGED <<session, query_input, selected_example, managerVars, otherVars>>

NextDashboard ==
    \/ OpenPage
    \/ TypeQuery
    \/ SelectExample
    \/ UseExample
    \/ PressClear
    \/ PressExecute

SpecDashboard == InitDashboard /\ [][NextDashboard]_vars

(***************************************************************************)
(* Properties of the dashboard.                                            *)
(***************************************************************************)
\* the texts of QueryInputs without the blanks around them, written out
Trimmed(q) ==
    CASE q \in {<<>>, <<" ">>, <<" ", NL>>} -> <<>>
      [] q \in {<<"q">>, <<" ", "q", NL>>} -> <<"q">>
      [] q = <<"q", " ", "r">> -> <<"q", " ", "r">>

\* C18: a press of Execute Query with a query that is not empty once trimmed
\* appends exactly one pair, the trimmed query and a response, to the end of
\* chat_history; a press with an empty or blank query changes neither
\* chat_history nor anything of the manager (no graph run).
C18_ExecuteAppendsOnePair ==
    [][PressExecute =>
          IF Trimmed(query_input) # <<>>
          THEN /\ Len(chat_history') = Len(chat_history) + 1
               /\ SubSeq(chat_history', 1, Len(chat_history)) = chat_history
               /\ chat_history'[Len(chat_history')][1] = Trimmed(query_input)
               /\ chat_history'[Len(chat_history')][2] \in Responses
          ELSE UNCHANGED <<chat_history, agent_events, now, managerVars>>]_vars

\* two queries were executed in a row: the history lists them in that order,
\* the second one trimmed
C18_Witness ==
    /\ Len(chat_history) = 2
    /\ chat_history[1][1] = <<"q", " ", "r">>
    /\ chat_history[2][1] = <<"q">>
    /\ query_input = <<" ", "q", NL>>

\* C19: a press of Clear Chat History empties chat_history and changes
\* nothing of the manager: not its graph, not its tool list, not its
\* agent_events.
C19_ClearOnlyClearsHistory ==
    [][PressClear =>
          /\ chat_history' = <<>>
          /\ UNCHANGED <<session, graph, all_tools, mcp_tools_loaded, agents,
                         agent_events>>]_vars

\* the history is empty again while the event log still holds an event of
\* an earlier query
C19_Witness ==
    /\ session = "ready"
    /\ chat_history = <<>>
    /\ agent_events # <<>>

(***************************************************************************)
(* The reports about the protocol tools.                                   *)
(***************************************************************************)
EnvVarOf(c) == IF c = AWS_DOCS THEN AWS_ACCESS_KEY_ID ELSE GITHUB_PERSONAL_ACCESS_TOKEN

ReportsAbout(c) == {i \in DOMAIN printed : printed[i] \in {OkMsg(c), WarnMsg(c)}}

\* the latest report about client c says that its tools were loaded; the
\* dashboard has one report for all the clients it tried
ReportedLoaded(c) ==
    IF script = WEB_UI
    THEN mcp_tools_loaded /\ env[EnvVarOf(c)] # ""
    ELSE /\ ReportsAbout(c) # {}
         /\ \E i \in ReportsAbout(c) :
               /\ \A j \in ReportsAbout(c) : j <= i
               /\ printed[i] = OkMsg(c)

ListOf(tv) == IF tv = "all_tools" THEN all_tools ELSE self_tools

\* C21: an agent that is given a script's tool list holds the tools of every
\* client last reported as loaded, and the total that is printed is the
\* number of basic tools plus the numbers of tools of the clients reported
\* as loaded.
C21_ReportedToolsHandedOn ==
    /\ [][ConstructStep /\ Cur.tl \in {"all_tools", "self_tools"}
              /\ agents'[Cur.a].built =>
            \A c \in Clients :
               ReportedLoaded(c) =>
                  Range(ClientTools(c)) \subseteq Range(agents'[Cur.a].tools)]_vars
    /\ [][PrintStep /\ Cur.msg = TotalMsg =>
            \E n \in {Len(ClientTools(AWS_DOCS))}, k \in {Len(ClientTools(GITHUB))} :
               Len(ListOf(Cur.tv)) =
                  Len(BaseTools4)
                  + (IF ReportedLoaded(AWS_DOCS) THEN n ELSE 0)
                  + (IF ReportedLoaded(GITHUB) THEN k ELSE 0)]_vars

(***************************************************************************)
(* The classification of content block starts.                             *)
(***************************************************************************)
\* the payload holds nothing but an "event" with contentBlockStart
OnlyContentBlockStart(e) ==
    /\ e.event.present
    /\ e.event.key = "contentBlockStart"
    /\ e = [NoPayload EXCEPT !.event = e.event]

\* C22: a payload whose "event" holds contentBlockStart with start.toolUse
\* is classified as tool_use with the name of the toolUse as tool_name, and
\* one whose contentBlockStart holds no toolUse is classified as control.
C22_ContentBlockStartClassified ==
    (in_handler /\ OnlyContentBlockStart(event)) =>
        /\ event.event.start = "toolUse" =>
              /\ handled.exc = ""
              /\ handled.event_type = "tool_use"
              /\ handled.tool_name = STREAM_TOOL
        /\ event.event.start \in {"no start", "no toolUse"} =>
              /\ handled.exc = ""
              /\ handled.event_type = "control"

(***************************************************************************)
(* The rules of the clean-up pass, line by line.                           *)
(***************************************************************************)
\* the line without the whitespace at its two ends
Trim(s) ==
    LET inside == {i \in DOMAIN s : s[i] \notin Whitespace}
    IN  IF inside = {} THEN <<>>
        ELSE LET a == CHOOSE i \in inside : \A j \in inside : i <= j
                 b == CHOOSE i \in inside : \A j \in inside : j <= i
             IN  SubSeq(s, a, b)

HEADING == <<"#", "#", " ">>

BecomesHeading(t) == t # <<>> /\ t[1] # "#" /\ IsHeader(t)

\* the bullet line t with its marker written as "- "
WithDashMarker(t) ==
    IF Len(t) >= 2 /\ t[1] = "-" /\ t[2] = " " THEN t
    ELSE <<"-", " ">> \o Trim(Tail(t))

\* C23: a line is returned with "## " in front of it exactly when, trimmed,
\* it does not start with '#' and names a section; every other line is
\* returned trimmed, except that the module-level variant writes the marker
\* of a bullet line as "- "; a bullet line that names a section becomes a
\* heading.
C23_HeadingExactlyForSectionNames ==
    Formatted =>
        /\ Len(OutLines) = Len(InLines)
        /\ \A i \in DOMAIN InLines :
              LET t == Trim(InLines[i])
              IN  /\ OutLines[i] = HEADING \o t <=> BecomesHeading(t)
                  /\ ~BecomesHeading(t) =>
                        OutLines[i] =
                           IF /\ md_variant = "module"
                              /\ t # <<>>
                              /\ t[1] \in {"-", BULLET}
                           THEN WithDashMarker(t)
                           ELSE t

\* the module-level variant has made a heading of a bullet line that names a
\* section and has whitespace in front of its marker
C23_Witness ==
    /\ Formatted
    /\ md_variant = "module"
    /\ InLines = << <<" ", BULLET>> \o KEY_FINDINGS >>
    /\ OutLines = << HEADING \o <<BULLET>> \o KEY_FINDINGS >>

\* C24: the clean-up pass returns as many lines as the text it is given
\* has, and applied to a text it returned it returns that text unchanged.
C24_IdempotentAndLinePreserving ==
    /\ md_phase \in {"formatted", "reformatted"} =>
          Len(SplitLines(md_output)) = Len(SplitLines(md_text))
    /\ md_phase = "reformatted" => md_output = md_text

\* the pass was applied to "## Key Findings" followed by the bullet line
\* "- ", which it had returned, and returned the two lines again
C24_Witness ==
    /\ md_phase = "reformatted"
    /\ md_variant = "module"
    /\ md_text = HEADING_KEY_FINDINGS \o <<NL, "-", " ">>
    /\ md_output = md_text

(***************************************************************************)
(* The sessions of the clients whose tools an agent holds.                 *)
(***************************************************************************)
\* the clients that listed one of the tools of agent a
ClientsOf(a) ==
    {c \in Clients : Range(ClientTools(c)) \cap Range(agents[a].tools) # {}}

\* the agents that are running: the agent being called, or the agents of
\* the nodes of the graph that have started and not returned
RunningAgents ==
    IF At("run_agent") THEN {Cur.a}
    ELSE IF run.active
    THEN {graph.nodes[i].agent : i \in {j \in DOMAIN graph.nodes :
                                           graph.nodes[j].id \in run.running}}
    ELSE {}

\* C25: while an agent runs, the session of every client that listed one of
\* its tools is open.
C25_ToolsUsedInsideSessions ==
    \A a \in RunningAgents : \A c \in ClientsOf(a) : sessions[c] = "open"

\* agent-intro.py calls its agent, which holds the tools of both clients,
\* with both sessions open
C25_Witness ==
    /\ script = AGENT_INTRO
    /\ RunningAgents = {"IntroAgent"}
    /\ ClientsOf("IntroAgent") = Clients
    /\ \A c \in Clients : sessions[c] = "open"

(***************************************************************************)
(* The graph runs of one command-line run of agent-graph-ui.py.            *)
(***************************************************************************)
FormattedOutputs == {i \in DOMAIN printed : IsFormatted(printed[i])}

\* C26: a run of agent-graph-ui.py starts at most one graph run, on the
\* query the user supplied, and a run that ends has made exactly that one
\* graph run and printed one formatted output.
C26_OneGraphRunOnUserQuery ==
    script = AGENT_GRAPH_UI =>
        /\ run.count <= 1
        /\ run.count = 1 => run.query = ExpectedQuery
        /\ status = "done" => run.count = 1 /\ Cardinality(FormattedOutputs) = 1

\* C27: a press of Execute Query that follows a press of Use Example, with
\* nothing typed or selected in between, appends the selected example and
\* its response to chat_history.
C27_UseExampleThenExecute ==
    [][PressExecute /\ trigger = "Use Example" =>
          /\ Len(chat_history') = Len(chat_history) + 1
          /\ chat_history'[Len(chat_history')][1] = selected_example]_vars

====
